---- MODULE Spec2Model ----
(***************************************************************************)
(* Verification model of the middle end of the smpl compiler:              *)
(*   - the CFG builder        (smpl/src/analysis/control_flow.rs)          *)
(*   - the return-trace pass  (smpl/src/analysis/fn_analyzer.rs)           *)
(*   - the expression flattener (smpl/src/analysis/expr_flow.rs)           *)
(* Graphs follow petgraph: nodes and edges are kept in insertion order and *)
(* are addressed by their 1-based index; 0 stands for Option::None.        *)
(***************************************************************************)
EXTENDS Integers, Sequences, FiniteSets, TLC

VARIABLES
    pc,            \* position of the analysis pipeline
    body,          \* ast::Block of the function under analysis
    fn_type,       \* declared return type of the function ("Unit" or "Int")
    cfg,           \* CFG {graph, start, end} once generated
    gen_result,    \* Result of CFG::generate
    trace_result,  \* Result of return_trace
    ast_expr,      \* source expression handed to expr_flow::flatten
    expr,          \* typed_ast::Expr {map, execution_order} it produces
    modules,       \* Vec<AstModule> handed to check_modules
    mr,            \* the locals of check_modules and the Program it fills
    op_in,         \* arguments of one call of a type-level operation
    op_out,        \* what that call returned
    fn_in,         \* the function handed to the analysis of one function
    ck             \* the state of that analysis

cfg_vars == <<body, fn_type, cfg, gen_result, trace_result>>
flatten_vars == <<ast_expr, expr>>
mod_vars == <<modules, mr>>
op_vars == <<op_in, op_out>>
check_vars == <<fn_in, ck>>
vars == <<pc, cfg_vars, flatten_vars, mod_vars, op_vars, check_vars>>

(***************************************************************************)
(* Bounds of the explored inputs.                                          *)
(***************************************************************************)
MaxSize == 3        \* cost of a function body (statements and elif branches)
MaxBranches == 2    \* conditional branches (if + elif) of one if statement
MaxExprSize == 3    \* nodes of a source expression
MaxArgs == 2        \* arguments / fields / elements / chained calls
MaxDecls == 2       \* declarations of a program
MaxTypeSize == 3    \* nodes of a type application
MaxFns == 3         \* anonymous functions of a function
MaxVisits == 2      \* temporaries that refer to one anonymous function
MaxStructs == 3     \* structs of a universe of structs
MaxFields == 4      \* fields of all the structs of a universe of structs

None == 0

(***************************************************************************)
(* ast::Stmt / ast::ExprStmt.  Conditions and expressions of statements    *)
(* are opaque to the CFG builder; Return records whether it has a value.   *)
(***************************************************************************)
Stmt(t, e, b, brs, d) ==
    [t |-> t, expr |-> e, block |-> b, branches |-> brs, default_block |-> d]

ExprS == Stmt("Expr", TRUE, <<>>, <<>>, <<>>)
AssignmentS == Stmt("Assignment", TRUE, <<>>, <<>>, <<>>)
LocalVarDeclS == Stmt("LocalVarDecl", TRUE, <<>>, <<>>, <<>>)
ReturnS(e) == Stmt("Return", e, <<>>, <<>>, <<>>)
BreakS == Stmt("Break", FALSE, <<>>, <<>>, <<>>)
ContinueS == Stmt("Continue", FALSE, <<>>, <<>>, <<>>)
WhileS(b) == Stmt("While", TRUE, b, <<>>, <<>>)
\* branches: non-empty sequence of blocks; default_block: <<>> or <<block>>
IfS(brs, d) == Stmt("If", TRUE, <<>>, brs, d)

Leaves == {ExprS, ReturnS(TRUE), ReturnS(FALSE), BreakS, ContinueS}

RECURSIVE Union(_)
\* UNION S, folded from binary unions whose left operand is in normal form
Union(S) ==
    IF S = {} THEN {}
    ELSE LET x == CHOOSE y \in S : TRUE
         IN  IF Cardinality(x) = 0 THEN Union(S \ {x}) ELSE x \cup Union(S \ {x})

RECURSIVE Blocks(_), Stmts(_), BlockSeqs(_, _)
\* all blocks of exactly n cost units
Blocks(n) ==
    IF n = 0 THEN {<<>>}
    ELSE Union({ { <<s>> \o b : s \in Stmts(k), b \in Blocks(n - k) } : k \in 1..n })

\* all sequences of m blocks whose costs add up to n
BlockSeqs(m, n) ==
    IF m = 0 THEN (IF n = 0 THEN {<<>>} ELSE {})
    ELSE Union({ { <<b>> \o r : b \in Blocks(a), r \in BlockSeqs(m - 1, n - a) } : a \in 0..n })

\* the number of conditional branches an if statement of k cost units can have
BranchCounts(k) == 1..(IF k < MaxBranches THEN k ELSE MaxBranches)

\* all statements of exactly k cost units: a statement costs 1 plus the cost
\* of its blocks, each elif branch costs 1 more, an else block is free
Stmts(k) ==
    Union({ IF k = 1 THEN Leaves ELSE {},
            { WhileS(b) : b \in Blocks(k - 1) },
            Union({ { IfS(brs, <<>>) : brs \in BlockSeqs(nb, k - nb) } : nb \in BranchCounts(k) }),
            Union({ { IfS(SubSeq(bs, 1, nb), <<bs[nb + 1]>>) : bs \in BlockSeqs(nb + 1, k - nb) } :
                    nb \in BranchCounts(k) }) })

\* all function bodies of at most n cost units
Bodies(n) == Union({ Blocks(k) : k \in 0..n })

FnTypes == {"Unit", "Int"}

(***************************************************************************)
(* control_data.rs: Node and Edge.  A node weight is a record; id is the   *)
(* LoopId / BranchingId it carries (-1 when it has none), expr tells        *)
(* whether a Return has a value, span is "dummy" for Span::dummy().        *)
(***************************************************************************)
Node(kind, id, e, span, block) ==
    [kind |-> kind, id |-> id, expr |-> e, span |-> span, block |-> block]

StartN == Node("Start", -1, FALSE, "none", <<>>)
EndN == Node("End", -1, FALSE, "none", <<>>)
EnterScopeN == Node("EnterScope", -1, FALSE, "none", <<>>)
ExitScopeN == Node("ExitScope", -1, FALSE, "none", <<>>)
ReturnN(e, span) == Node("Return", -1, e, span, <<>>)
BreakN(id) == Node("Break", id, FALSE, "src", <<>>)
ContinueN(id) == Node("Continue", id, FALSE, "src", <<>>)
BranchSplitN(id) == Node("BranchSplit", id, FALSE, "none", <<>>)
BranchMergeN(id) == Node("BranchMerge", id, FALSE, "none", <<>>)
ConditionN == Node("Condition", -1, TRUE, "src", <<>>)
LoopHeadN(id) == Node("LoopHead", id, TRUE, "src", <<>>)
LoopFootN(id) == Node("LoopFoot", id, FALSE, "src", <<>>)
BlockN(block) == Node("Block", -1, FALSE, "none", block)

(***************************************************************************)
(* Bind(v, F) is F(v) with v evaluated once: the builder below is a        *)
(* sequence of updates of one graph, each step naming the previous result. *)
(***************************************************************************)
Bind(v, F(_)) == CHOOSE r \in { F(x) : x \in {v} } : TRUE

(***************************************************************************)
(* petgraph::Graph as used by CFG: add_node returns the new index, edges   *)
(* are <<source, target, weight>> and parallel edges are kept.  The record *)
(* c threaded through the builder is the CFG under construction together   *)
(* with the two universe counters the builder draws from.  add(c, ns, es)  *)
(* is the add_node calls for ns followed by the add_edge calls for es; the *)
(* k-th node added to c has index node_count + k.                          *)
(***************************************************************************)
add(c, new_nodes, new_edges) ==
    [c EXCEPT !.graph.nodes = @ \o new_nodes, !.graph.edges = @ \o new_edges]
add_edge(c, a, b, e) == add(c, <<>>, << <<a, b, e>> >>)
nth_new(c, k) == Len(c.graph.nodes) + k

\* universe.new_loop_id() / universe.new_branching_id()
new_loop_id(c) == [c EXCEPT !.loop_id = @ + 1]
new_branching_id(c) == [c EXCEPT !.branching_id = @ + 1]

\* macro append_node!($CFG, $head, $previous, $to_insert, $edge)
append_node(c, head, previous, to_insert, edge) ==
    [c |-> add(c, <<to_insert>>,
               IF previous # None THEN << <<previous, nth_new(c, 1), edge>> >> ELSE <<>>),
     head |-> IF head = None THEN nth_new(c, 1) ELSE head,
     previous |-> nth_new(c, 1)]

\* macro append_node_index!($CFG, $head, $previous, $to_insert, $edge)
append_node_index(c, head, previous, to_insert, edge) ==
    [c |-> IF previous # None THEN add_edge(c, previous, to_insert, edge) ELSE c,
     head |-> IF head = None THEN to_insert ELSE head,
     previous |-> to_insert]

(***************************************************************************)
(* CFG::generate_scoped_block.  s is the loop state of the function:       *)
(* the graph c, head, previous, current_block and the error returned by ?  *)
(* ("" while there is none).  loop_data is <<>> for None and               *)
(* <<loop_head, loop_foot, loop_id>> for Some.                             *)
(***************************************************************************)
BlockState(c, head, previous, current_block, err) ==
    [c |-> c, head |-> head, previous |-> previous,
     current_block |-> current_block, err |-> err]

BranchData(c, head, foot, err) == [c |-> c, head |-> head, foot |-> foot, err |-> err]

\* the statement loop's append_node!(self, head, previous, node)
append_stmt_node(s, w) ==
    Bind(append_node(s.c, s.head, s.previous, w, "Normal"),
         LAMBDA r: BlockState(r.c, r.head, r.previous, s.current_block, s.err))

\* "if current_block.is_empty() == false { append_node!(...Node::Block...) }"
flush_block(s) ==
    IF s.current_block # <<>>
    THEN [append_stmt_node(s, BlockN(s.current_block)) EXCEPT !.current_block = <<>>]
    ELSE s

\* the append after the statement loop: append_node!(self, previous, head, ...)
\* binds the macro's $head to previous and its $previous to head
append_last_block(s) ==
    IF s.current_block # <<>>
    THEN Bind(append_node(s.c, s.previous, s.head, BlockN(s.current_block), "Normal"),
              LAMBDA r: BlockState(r.c, r.previous, r.head, <<>>, s.err))
    ELSE s

\* ExprStmt::Return
return_stmt(s, stmt) ==
    Bind(flush_block(s), LAMBDA f: append_stmt_node(f, ReturnN(stmt.expr, "src")))

\* ExprStmt::Break
break_stmt(s, loop_data) ==
    IF loop_data = <<>> THEN [s EXCEPT !.err = "BadBreak"]
    ELSE Bind(flush_block(s), LAMBDA f: append_stmt_node(f, BreakN(loop_data[3])))

\* ExprStmt::Continue
continue_stmt(s, loop_data) ==
    IF loop_data = <<>> THEN [s EXCEPT !.err = "BadContinue"]
    ELSE Bind(flush_block(s), LAMBDA f: append_stmt_node(f, ContinueN(loop_data[3])))

\* faulty variant: the back edge drawn from the loop head to the loop foot
connect_backedge_reversed(c, loop_head, loop_foot) ==
    add_edge(c, loop_head, loop_foot, "BackEdge")

\* "Connect loop foot to loop head with a backedge"
connect_backedge(c, loop_head, loop_foot) == add_edge(c, loop_foot, loop_head, "BackEdge")

\* the head of ExprStmt::While: the LoopHead and LoopFoot nodes of a fresh
\* loop id, the back edge, and the loop head appended to the block
open_loop(f) ==
    Bind(nth_new(f.c, 1), LAMBDA loop_head:
    Bind(connect_backedge(add(new_loop_id(f.c),
                              <<LoopHeadN(f.c.loop_id), LoopFootN(f.c.loop_id)>>, <<>>),
                          loop_head, loop_head + 1), LAMBDA c3:
    Bind(append_node_index(c3, f.head, f.previous, loop_head, "Normal"), LAMBDA a:
        [c |-> a.c, head |-> a.head, loop_head |-> loop_head,
         loop_foot |-> loop_head + 1, loop_id |-> f.c.loop_id])))

\* "Connect the condition node to the loop foot by the FALSE path"
connect_loop_exit(c, loop_head, loop_foot) == add_edge(c, loop_head, loop_foot, "False")

\* faulty variant: the loop body entered without its EnterScope / ExitScope
connect_loop_body_unscoped(c, loop_head, loop_foot, loop_body) ==
    IF loop_body.head # None
    THEN add(c, <<>>, << <<loop_head, loop_body.head, "True">>,
                         <<loop_body.foot, loop_foot, "Normal">> >>)
    ELSE add_edge(c, loop_head, loop_foot, "True")

\* the TRUE path of a loop: a scoped body, or the loop foot for an empty body
connect_loop_body(c, loop_head, loop_foot, loop_body) ==
    IF loop_body.head # None
    THEN add(c, <<EnterScopeN, ExitScopeN>>,
             << <<loop_head, nth_new(c, 1), "True">>,
                <<nth_new(c, 1), loop_body.head, "Normal">>,
                <<loop_body.foot, nth_new(c, 2), "Normal">>,
                <<nth_new(c, 2), loop_foot, "Normal">> >>)
    ELSE add_edge(c, loop_head, loop_foot, "True")

\* faulty variant: the branches of an if forget the loop around them
branch_loop_data_dropped(loop_data) == <<>>

\* the loop_data a branch of an if statement is generated with
branch_loop_data(loop_data) == loop_data

\* the scope of a branch around its block (branch_graph): EnterScope and
\* ExitScope are the next two nodes
scope_branch(c, h, f) ==
    IF h # None /\ f # None
    THEN add(c, <<EnterScopeN, ExitScopeN>>,
             << <<nth_new(c, 1), h, "Normal">>, <<f, nth_new(c, 2), "Normal">> >>)
    ELSE IF h # None
    THEN add(c, <<EnterScopeN, ExitScopeN>>,
             << <<nth_new(c, 1), h, "Normal">>, <<h, nth_new(c, 2), "Normal">> >>)
    ELSE add(c, <<EnterScopeN, ExitScopeN>>, << <<nth_new(c, 1), nth_new(c, 2), "Normal">> >>)

\* the Condition node of a branch and its True edge to the branch's scope
condition_branch(c, scope_enter) ==
    add(c, <<ConditionN>>, << <<nth_new(c, 1), scope_enter, "True">> >>)

\* the head of ExprStmt::If: the first BranchSplit and BranchMerge of a
\* fresh branching id, the split appended to the block
open_branching(f) ==
    Bind(nth_new(f.c, 1), LAMBDA first_split:
    Bind(add(new_branching_id(f.c),
             <<BranchSplitN(f.c.branching_id), BranchMergeN(f.c.branching_id)>>, <<>>), LAMBDA c2:
    Bind(append_node_index(c2, f.head, f.previous, first_split, "Normal"), LAMBDA a:
        [c |-> a.c, head |-> a.head, first_split |-> first_split,
         first_merge |-> first_split + 1])))

\* the first branch between the first split and the first merge
connect_first_branch(c, first_split, first_merge, first_branch) ==
    add(c, <<>>, << <<first_split, first_branch.head, "True">>,
                    <<first_branch.foot, first_merge, "Normal">> >>)

\* an elif branch: its own split and merge, stacked on the previous branch
connect_stacked_branch(c, branch, previous_branch) ==
    add(new_branching_id(c),
        <<BranchSplitN(c.branching_id), BranchMergeN(c.branching_id)>>,
        << <<nth_new(c, 1), branch.head, "Normal">>,
           <<branch.foot, nth_new(c, 2), "Normal">>,
           <<previous_branch.head, nth_new(c, 1), "False">>,
           <<nth_new(c, 2), previous_branch.foot, "Normal">> >>)

\* faulty variant: the edge of a missing else labelled True
connect_no_else_true_edge(c, previous_branch, first_merge) ==
    add_edge(c, previous_branch.head, previous_branch.foot, "True")

\* "No default branch: connect the last condition node to the merge node
\* with a false edge"
connect_no_else(c, previous_branch, first_merge) ==
    add_edge(c, previous_branch.head, previous_branch.foot, "False")

\* "Found an else branch"
connect_else(c, previous_branch, else_branch) ==
    add(c, <<>>, << <<previous_branch.head, else_branch.head, "False">>,
                    <<else_branch.foot, previous_branch.foot, "Normal">> >>)

RECURSIVE generate_scoped_block(_, _, _), scoped_block_loop(_, _, _, _)
RECURSIVE generate_branch(_, _, _, _), stack_branches(_, _, _, _, _)
RECURSIVE while_stmt(_, _, _), if_stmt(_, _, _)

\* fn generate_branch: a scoped branch, EnterScope ... ExitScope, headed by
\* its Condition node when it has one
generate_branch(c, block, has_condition, loop_data) ==
    Bind(generate_scoped_block(c, block, loop_data), LAMBDA branch_graph:
        IF branch_graph.err # "" THEN branch_graph
        ELSE IF branch_graph.head = None /\ branch_graph.foot # None
        THEN BranchData(branch_graph.c, None, None, "Panic")
        ELSE
        Bind(nth_new(branch_graph.c, 1), LAMBDA scope_enter:
        Bind(scope_branch(branch_graph.c, branch_graph.head, branch_graph.foot), LAMBDA c3:
            IF has_condition
            THEN BranchData(condition_branch(c3, scope_enter),
                            nth_new(c3, 1), scope_enter + 1, "")
            ELSE BranchData(c3, scope_enter, scope_enter + 1, ""))))

\* "Stack the branches": the elif branches i..Len(branches)
stack_branches(c, branches, i, previous_branch, loop_data) ==
    IF i > Len(branches) THEN [c |-> c, previous_branch |-> previous_branch, err |-> ""]
    ELSE
    Bind(generate_branch(c, branches[i], TRUE, branch_loop_data(loop_data)), LAMBDA branch:
        IF branch.err # ""
        THEN [c |-> branch.c, previous_branch |-> previous_branch, err |-> branch.err]
        ELSE stack_branches(connect_stacked_branch(branch.c, branch, previous_branch),
                            branches, i + 1,
                            [head |-> branch.head, foot |-> nth_new(branch.c, 2)], loop_data))

\* ExprStmt::If
if_stmt(s, stmt, loop_data) ==
    Bind(flush_block(s), LAMBDA f:
    Bind(open_branching(f), LAMBDA a:
    Bind(generate_branch(a.c, stmt.branches[1], TRUE, branch_loop_data(loop_data)),
         LAMBDA first_branch:
        IF first_branch.err # "" THEN [f EXCEPT !.err = first_branch.err]
        ELSE
        Bind(stack_branches(connect_first_branch(first_branch.c, a.first_split,
                                                 a.first_merge, first_branch),
                            stmt.branches, 2,
                            [head |-> first_branch.head, foot |-> a.first_merge], loop_data),
             LAMBDA st:
            IF st.err # "" THEN [f EXCEPT !.err = st.err]
            ELSE IF stmt.default_block = <<>>
            THEN BlockState(connect_no_else(st.c, st.previous_branch, a.first_merge),
                            a.head, a.first_merge, <<>>, "")
            ELSE
            Bind(generate_branch(st.c, stmt.default_block[1], FALSE,
                                 branch_loop_data(loop_data)), LAMBDA else_branch:
                IF else_branch.err # "" THEN [f EXCEPT !.err = else_branch.err]
                ELSE BlockState(connect_else(else_branch.c, st.previous_branch, else_branch),
                                a.head, a.first_merge, <<>>, ""))))))

\* ExprStmt::While
while_stmt(s, stmt, loop_data) ==
    Bind(flush_block(s), LAMBDA f:
    Bind(open_loop(f), LAMBDA a:
    Bind(generate_scoped_block(a.c, stmt.block, <<a.loop_head, a.loop_foot, a.loop_id>>),
         LAMBDA loop_body:
        IF loop_body.err # "" THEN [f EXCEPT !.err = loop_body.err]
        ELSE BlockState(connect_loop_body(connect_loop_exit(loop_body.c, a.loop_head, a.loop_foot),
                                          a.loop_head, a.loop_foot, loop_body),
                        a.head, a.loop_foot, <<>>, ""))))

\* one statement of "while let Some(next) = instructions.next()"
stmt_step(s, next, loop_data) ==
    CASE next.t \in {"Expr", "Assignment", "LocalVarDecl"} ->
             [s EXCEPT !.current_block = Append(@, next.t)]
      [] next.t = "Return" -> return_stmt(s, next)
      [] next.t = "Break" -> break_stmt(s, loop_data)
      [] next.t = "Continue" -> continue_stmt(s, loop_data)
      [] next.t = "While" -> while_stmt(s, next, loop_data)
      [] next.t = "If" -> if_stmt(s, next, loop_data)

\* the statements i..Len(instructions); an error returns at once
scoped_block_loop(s, instructions, i, loop_data) ==
    IF s.err # "" \/ i > Len(instructions) THEN s
    ELSE Bind(stmt_step(s, instructions[i], loop_data),
              LAMBDA s1: scoped_block_loop(s1, instructions, i + 1, loop_data))

generate_scoped_block(c, instructions, loop_data) ==
    Bind(scoped_block_loop(BlockState(c, None, None, <<>>, ""), instructions, 1, loop_data),
         LAMBDA s:
        IF s.err # "" THEN BranchData(s.c, None, None, s.err)
        ELSE Bind(append_last_block(s), LAMBDA l: BranchData(l.c, l.head, l.previous, "")))

\* faulty variant: the test for a unit return type inverted
returns_unit_inverted(t) == t # "Unit"

\* resolve_types(&return_type, &Type::Unit) on the declared return type
returns_unit(t) == t = "Unit"

\* the graph CFG::generate starts from: Start and End, fresh counters
new_cfg ==
    [graph |-> [nodes |-> <<StartN, EndN>>, edges |-> <<>>],
     start |-> 1, end |-> 2, loop_id |-> 0, branching_id |-> 0]

\* the wrapper of CFG::generate around the function body
wrap_body(function_body, t) ==
    Bind(append_node(function_body.c, new_cfg.start, new_cfg.start, EnterScopeN, "Normal"),
         LAMBDA a:
    Bind(IF function_body.head # None
         THEN [c |-> add_edge(a.c, a.previous, function_body.head, "Normal"),
               head |-> a.head, previous |-> function_body.foot]
         ELSE a, LAMBDA b:
    Bind(IF returns_unit(t)
         THEN append_node(b.c, b.head, b.previous, ReturnN(FALSE, "dummy"), "Normal")
         ELSE b, LAMBDA r:
    Bind(append_node(r.c, r.head, r.previous, ExitScopeN, "Normal"), LAMBDA x:
        append_node_index(x.c, x.head, x.previous, new_cfg.end, "Normal").c))))

\* CFG::generate
generate(instructions, t) ==
    Bind(generate_scoped_block(new_cfg, instructions, <<>>), LAMBDA function_body:
        IF function_body.err # ""
        THEN [result |-> function_body.err, cfg |-> <<>>]
        ELSE Bind(wrap_body(function_body, t), LAMBDA c:
                 [result |-> "Ok",
                  cfg |-> [graph |-> c.graph, start |-> c.start, end |-> c.end]]))

(***************************************************************************)
(* Graph accessors of CFG.  petgraph walks the edges of a node from the    *)
(* most recently added one to the oldest.                                  *)
(***************************************************************************)
RECURSIVE neighbors_scan(_, _, _, _)
\* the far ends of the edges of `node` in direction dir (1: incoming,
\* 2: outgoing), scanning the edge list from index i down to 1
neighbors_scan(edges, node, dir, i) ==
    IF i = 0 THEN <<>>
    ELSE IF dir = 1 /\ edges[i][2] = node
         THEN <<edges[i][1]>> \o neighbors_scan(edges, node, dir, i - 1)
    ELSE IF dir = 2 /\ edges[i][1] = node
         THEN <<edges[i][2]>> \o neighbors_scan(edges, node, dir, i - 1)
    ELSE neighbors_scan(edges, node, dir, i - 1)

neighbors_in(g, node) == neighbors_scan(g.graph.edges, node, 1, Len(g.graph.edges))
neighbors_out(g, node) == neighbors_scan(g.graph.edges, node, 2, Len(g.graph.edges))
node_weight(g, node) == g.graph.nodes[node]
node_count(g) == Len(g.graph.nodes)

(***************************************************************************)
(* fn_analyzer.rs: return_trace and return_check_id.  A call of            *)
(* CFG::previous on a node without exactly one predecessor panics.         *)
(***************************************************************************)
\* faulty variant: a BranchMerge checked through one predecessor only
return_check_id_first_pred(g, id) ==
    IF node_weight(g, id).kind = "Return" THEN [err |-> "", more |-> <<>>]
    ELSE IF node_weight(g, id).kind = "BranchMerge"
    THEN [err |-> "", more |-> SubSeq(neighbors_in(g, id), 1, 1)]
    ELSE IF node_weight(g, id).kind = "ExitScope"
    THEN IF Len(neighbors_in(g, id)) = 1
         THEN [err |-> "", more |-> neighbors_in(g, id)]
         ELSE [err |-> "Panic", more |-> <<>>]
    ELSE [err |-> "MissingReturn", more |-> <<>>]

\* faulty variant: any node with predecessors is looked through
return_check_id_any_node(g, id) ==
    IF node_weight(g, id).kind = "Return" THEN [err |-> "", more |-> <<>>]
    ELSE IF neighbors_in(g, id) # <<>>
    THEN [err |-> "", more |-> neighbors_in(g, id)]
    ELSE [err |-> "MissingReturn", more |-> <<>>]

\* returns [err, more]: err is "", "MissingReturn" or "Panic"; more is the
\* Option<Vec<NodeIndex>> (<<>> for None as well as for an empty vector)
return_check_id(g, id) ==
    LET kind == node_weight(g, id).kind
    IN  IF kind = "Return" THEN [err |-> "", more |-> <<>>]
        ELSE IF kind = "BranchMerge" THEN [err |-> "", more |-> neighbors_in(g, id)]
        ELSE IF kind = "ExitScope"
            THEN IF Len(neighbors_in(g, id)) = 1
                 THEN [err |-> "", more |-> neighbors_in(g, id)]
                 ELSE [err |-> "Panic", more |-> <<>>]
        ELSE [err |-> "MissingReturn", more |-> <<>>]

RECURSIVE trace_loop(_, _, _, _)
\* "for _ in 0..cfg.graph().node_count()" with n iterations left
trace_loop(g, traced, node_stack, n) ==
    IF n = 0 THEN "Panic"
    ELSE IF node_stack = <<>> THEN "Ok"
    ELSE IF node_stack[Len(node_stack)] \in traced
    THEN trace_loop(g, traced, SubSeq(node_stack, 1, Len(node_stack) - 1), n - 1)
    ELSE Bind(return_check_id(g, node_stack[Len(node_stack)]), LAMBDA r:
             IF r.err # "" THEN r.err
             ELSE trace_loop(g, traced \cup {node_stack[Len(node_stack)]},
                             SubSeq(node_stack, 1, Len(node_stack) - 1) \o r.more, n - 1))

return_trace(g) ==
    IF Len(neighbors_in(g, g.end)) # 1 THEN "Panic"
    ELSE Bind(neighbors_in(g, g.end)[1], LAMBDA scope_exit:
             IF Len(neighbors_in(g, scope_exit)) # 1 THEN "Panic"
             ELSE trace_loop(g, {}, <<neighbors_in(g, scope_exit)[1]>>, node_count(g)))

(***************************************************************************)
(* ast::Expr as expr_flow sees it.  subs are the operands in source order: *)
(* lhs and rhs, the field initialisers, the array elements, array and      *)
(* indexer, the arguments of a call, base and stages of a call chain.      *)
(* path is the TypedPath of a Path or of the target of a FnCall; has_args  *)
(* tells Some(args) from None.                                             *)
(***************************************************************************)
AstE(t, subs, path, has_args) ==
    [t |-> t, subs |-> subs, path |-> path, has_args |-> has_args]

PathKinds == {"NillArity1", "NillArityN", "Parameterized"}
LeafKinds == {"Literal", "Binding", "FieldAccess", "AnonymousFn"}
ListKinds == {"StructInit", "AnonStructInit", "ArrayInitList"}

RECURSIVE Exprs(_), ExprSeqs(_, _), FnCalls(_), FnCallSeqs(_, _)
\* all sequences of m expressions whose sizes add up to n
ExprSeqs(m, n) ==
    IF m = 0 THEN (IF n = 0 THEN {<<>>} ELSE {})
    ELSE Union({ { <<e>> \o r : e \in Exprs(a), r \in ExprSeqs(m - 1, n - a) } : a \in 1..n })

\* all calls of exactly n nodes: None and Some(vec![]) have one node
FnCalls(n) ==
    Union({ IF n = 1 THEN { AstE("FnCall", <<>>, p, FALSE) : p \in PathKinds } ELSE {},
            Union({ { AstE("FnCall", as, p, TRUE) : as \in ExprSeqs(m, n - 1), p \in PathKinds } :
                    m \in 0..MaxArgs }) })

\* all sequences of m calls whose sizes add up to n
FnCallSeqs(m, n) ==
    IF m = 0 THEN (IF n = 0 THEN {<<>>} ELSE {})
    ELSE Union({ { <<e>> \o r : e \in FnCalls(a), r \in FnCallSeqs(m - 1, n - a) } : a \in 1..n })

\* all expressions of exactly n nodes; a call chain has the nodes of its calls
Exprs(n) ==
    IF n < 1 THEN {}
    ELSE Union({
        IF n = 1 THEN { AstE(k, <<>>, "", FALSE) : k \in LeafKinds } ELSE {},
        IF n = 1 THEN { AstE("Path", <<>>, p, FALSE) : p \in PathKinds } ELSE {},
        { AstE(k, es, "", FALSE) : es \in ExprSeqs(2, n - 1), k \in {"Bin", "Indexing"} },
        { AstE(k, <<e>>, "", FALSE) : e \in Exprs(n - 1), k \in {"Uni", "ArrayInitValue"} },
        Union({ { AstE(k, es, "", FALSE) : es \in ExprSeqs(m, n - 1), k \in ListKinds } :
                m \in 0..MaxArgs }),
        FnCalls(n),
        Union({ { AstE("FnCallChain", cs, "", FALSE) : cs \in FnCallSeqs(m + 1, n) } :
                m \in 1..MaxArgs }) })

\* all source expressions of at most n nodes
AstExprs(n) == Union({ Exprs(k) : k \in 1..n })

(***************************************************************************)
(* typed_ast.rs: Expr {map, execution_order}, Tmp and Value.  A Value is   *)
(* its variant, the tmp of a call's target (None for the others), whether  *)
(* a call has Some(args), and the TmpIds of its operands in order.  scope  *)
(* is the Expr under construction with the TmpId and FnId counters, the    *)
(* reserved anonymous functions and the id flatten_expr returned.          *)
(***************************************************************************)
Value(kind, fn_val, has_args, operands) ==
    [kind |-> kind, fn_val |-> fn_val, has_args |-> has_args, operands |-> operands]

new_scope ==
    [map |-> <<>>, execution_order |-> <<>>, tmp_id |-> 1, fn_id |-> 1,
     anonymous_fns |-> {}, result |-> None, err |-> ""]

\* local_data.new_tmp_id(): the next value of the TmpId counter
new_tmp_id(scope) == scope.tmp_id

\* faulty variant: the new TmpId put at the front of the execution order
map_tmp_prepend(scope, val) ==
    IF new_tmp_id(scope) \in DOMAIN scope.map THEN [scope EXCEPT !.err = "Panic"]
    ELSE [scope EXCEPT !.map = @ @@ (new_tmp_id(scope) :> val),
                       !.execution_order = <<new_tmp_id(scope)>> \o @,
                       !.result = new_tmp_id(scope),
                       !.tmp_id = @ + 1]

\* Expr::map_tmp on a fresh TmpId
map_tmp(scope, val) ==
    IF new_tmp_id(scope) \in DOMAIN scope.map THEN [scope EXCEPT !.err = "Panic"]
    ELSE [scope EXCEPT !.map = @ @@ (new_tmp_id(scope) :> val),
                       !.execution_order = Append(@, new_tmp_id(scope)),
                       !.result = new_tmp_id(scope),
                       !.tmp_id = @ + 1]

\* AstExpr::Path
path_value(path) ==
    CASE path = "NillArity1" -> Value("Binding", None, FALSE, <<>>)
      [] path = "NillArityN" -> Value("ModAccess", None, FALSE, <<>>)
      [] path = "Parameterized" -> Value("TypeInst", None, FALSE, <<>>)

\* AstExpr::AnonymousFn: a fresh FnId reserved for the function
anonymous_fn(scope) ==
    map_tmp([scope EXCEPT !.fn_id = @ + 1, !.anonymous_fns = @ \cup {scope.fn_id}],
            Value("AnonymousFn", None, FALSE, <<>>))

\* faulty variant: the previous result pushed behind the written arguments
pipe_last_arg(scope, fn_call_result, previous_result) ==
    [scope EXCEPT !.map[fn_call_result].operands = Append(@, previous_result),
                  !.map[fn_call_result].has_args = TRUE,
                  !.result = fn_call_result]

\* "Use the result of the function call as the first argument of the next
\* function": args.insert(0, first_arg), or Some(vec![first_arg]) for None
pipe_first_arg(scope, fn_call_result, previous_result) ==
    [scope EXCEPT !.map[fn_call_result].operands = <<previous_result>> \o @,
                  !.map[fn_call_result].has_args = TRUE,
                  !.result = fn_call_result]

RECURSIVE flatten_expr(_, _), flatten_each(_, _, _), flatten_chain(_, _, _)

\* the operands es flattened in order, ids collecting their TmpIds
flatten_each(scope, es, ids) ==
    IF es = <<>> THEN [scope |-> scope, ids |-> ids]
    ELSE Bind(flatten_expr(scope, Head(es)),
              LAMBDA s1: flatten_each(s1, Tail(es), Append(ids, s1.result)))

\* "for fn_call in chain.chain.into_iter()"
flatten_chain(scope, stages, previous_result) ==
    IF stages = <<>> THEN [scope EXCEPT !.result = previous_result]
    ELSE Bind(flatten_expr(scope, Head(stages)), LAMBDA s1:
             flatten_chain(pipe_first_arg(s1, s1.result, previous_result),
                           Tail(stages), s1.result))

flatten_expr(scope, e) ==
    CASE e.t = "Bin" ->
             Bind(flatten_each(scope, e.subs, <<>>), LAMBDA r:
                 map_tmp(r.scope, Value("BinExpr", None, FALSE, r.ids)))
      [] e.t = "Uni" ->
             Bind(flatten_each(scope, e.subs, <<>>), LAMBDA r:
                 map_tmp(r.scope, Value("UniExpr", None, FALSE, r.ids)))
      [] e.t \in {"Literal", "Binding", "FieldAccess"} ->
             map_tmp(scope, Value(e.t, None, FALSE, <<>>))
      [] e.t \in {"StructInit", "AnonStructInit"} ->
             Bind(flatten_each(scope, e.subs, <<>>), LAMBDA r:
                 map_tmp(r.scope, Value(e.t, None, FALSE, r.ids)))
      [] e.t = "FnCall" ->
             Bind(flatten_expr(scope, AstE("Path", <<>>, e.path, FALSE)), LAMBDA fn_val:
             Bind(IF e.has_args THEN flatten_each(fn_val, e.subs, <<>>)
                  ELSE [scope |-> fn_val, ids |-> <<>>], LAMBDA args:
                 map_tmp(args.scope, Value("FnCall", fn_val.result, e.has_args, args.ids))))
      [] e.t \in {"ArrayInitList", "ArrayInitValue"} ->
             Bind(flatten_each(scope, e.subs, <<>>), LAMBDA r:
                 map_tmp(r.scope, Value("ArrayInit", None, FALSE, r.ids)))
      [] e.t = "Indexing" ->
             Bind(flatten_each(scope, e.subs, <<>>), LAMBDA r:
                 map_tmp(r.scope, Value("Indexing", None, FALSE, r.ids)))
      [] e.t = "Path" -> map_tmp(scope, path_value(e.path))
      [] e.t = "AnonymousFn" -> anonymous_fn(scope)
      [] e.t = "FnCallChain" ->
             Bind(flatten_expr(scope, Head(e.subs)), LAMBDA base:
                 flatten_chain(base, Tail(e.subs), base.result))

\* expr_flow::flatten: the Expr and the reserved anonymous functions
flatten(e) ==
    Bind(flatten_expr(new_scope, e), LAMBDA scope:
        [map |-> scope.map, execution_order |-> scope.execution_order,
         anonymous_fns |-> scope.anonymous_fns, result |-> scope.result,
         err |-> scope.err])

(***************************************************************************)
(* The analysis of one function: CFG generation, then the return trace.    *)
(***************************************************************************)
NoCFG == [graph |-> [nodes |-> <<>>, edges |-> <<>>], start |-> None, end |-> None]
NoExpr ==
    [map |-> <<>>, execution_order |-> <<>>, anonymous_fns |-> {}, result |-> None, err |-> ""]
NoAst == <<>>
Unused == <<>>

Init ==
    /\ pc = "start"
    /\ body \in Bodies(MaxSize)
    /\ fn_type \in FnTypes
    /\ cfg = NoCFG
    /\ gen_result = "none"
    /\ trace_result = "none"
    /\ ast_expr = NoAst
    /\ expr = NoExpr
    /\ modules = <<>> /\ mr = Unused
    /\ op_in = Unused /\ op_out = Unused
    /\ fn_in = Unused /\ ck = Unused

\* CFG::generate(universe, body, fn_type, fn_scope)
Generate ==
    /\ pc = "start"
    /\ \E g \in {generate(body, fn_type)} :
           /\ gen_result' = g.result
           /\ cfg' = IF g.result = "Ok" THEN g.cfg ELSE NoCFG
           /\ pc' = IF g.result = "Ok" THEN "generated" ELSE "failed"
    /\ UNCHANGED <<body, fn_type, trace_result, flatten_vars, mod_vars, op_vars, check_vars>>

\* return_trace(cfg)
ReturnTrace ==
    /\ pc = "generated"
    /\ trace_result' = return_trace(cfg)
    /\ pc' = "traced"
    /\ UNCHANGED <<body, fn_type, cfg, gen_result, flatten_vars, mod_vars, op_vars, check_vars>>

Next == Generate \/ ReturnTrace

Spec == Init /\ [][Next]_vars

(***************************************************************************)
(* The flattening of one source expression.                                *)
(***************************************************************************)
InitFlatten ==
    /\ pc = "start"
    /\ body = <<>>
    /\ fn_type = "Unit"
    /\ cfg = NoCFG
    /\ gen_result = "none"
    /\ trace_result = "none"
    /\ ast_expr \in AstExprs(MaxExprSize)
    /\ expr = NoExpr
    /\ modules = <<>> /\ mr = Unused
    /\ op_in = Unused /\ op_out = Unused
    /\ fn_in = Unused /\ ck = Unused

\* expr_flow::flatten(global_data, local_data, e)
Flatten ==
    /\ pc = "start"
    /\ ast_expr # NoAst
    /\ expr' = flatten(ast_expr)
    /\ pc' = "flattened"
    /\ UNCHANGED <<cfg_vars, ast_expr, mod_vars, op_vars, check_vars>>

NextFlatten == Flatten

SpecFlatten == InitFlatten /\ [][NextFlatten]_vars

(***************************************************************************)
(* mod_resolver.rs: check_modules.  A parsed module is its name ("" for a  *)
(* module without one) and its declarations in source order.  A struct     *)
(* names the type of its field and a function the function it calls, both  *)
(* as paths; <<>> stands for no field / no call.  HashMaps are functions;  *)
(* the order in which the code iterates over one is any order, the same    *)
(* each time the map is iterated.                                          *)
(***************************************************************************)
NoPath == <<>>
Decl(k, name, ref) == [k |-> k, name |-> name, ref |-> ref]

ModNames == <<"a", "b">>
DeclStmts ==
    Union({ { Decl("Struct", "S", r) : r \in {NoPath, <<"S">>, <<"b", "S">>} },
            { Decl("Function", n, r) : n \in {"f", "g"}, r \in {NoPath, <<"g">>, <<"b", "g">>} },
            { Decl("Use", ModNames[i], NoPath) : i \in DOMAIN ModNames } })

RECURSIVE DeclSeqs(_), ModuleSeqs(_, _, _)
\* all sequences of exactly k declarations
DeclSeqs(k) ==
    IF k = 0 THEN {<<>>}
    ELSE { <<d>> \o r : d \in DeclStmts, r \in DeclSeqs(k - 1) }

\* all sequences of the modules i..n with at most k declarations together;
\* the i-th module is named ModNames[i] or has no name
ModuleSeqs(i, n, k) ==
    IF i > n THEN {<<>>}
    ELSE Union({ { <<[name |-> name, decls |-> ds]>> \o r :
                       name \in {ModNames[i], ""}, ds \in DeclSeqs(j),
                       r \in ModuleSeqs(i + 1, n, k - j) } : j \in 0..k })

\* all programs of at most k declarations
Programs(k) == Union({ ModuleSeqs(1, m, k) : m \in DOMAIN ModNames })

\* Universe::std() and its std_scope(): the counters, the registries and the
\* bindings of the primitive types
std ==
    [universe |-> [type_id |-> 2, fn_id |-> 1, module_id |-> 1,
                   types |-> (1 :> [kind |-> "Int", fields |-> <<>>]),
                   fns |-> <<>>, modules |-> <<>>],
     scope |-> [types |-> (<<"int">> :> 1), fns |-> <<>>]]

RECURSIVE reserve_decls(_, _, _)
\* "for decl_stmt in module.1.into_iter()": ReservedType(new_type_id, d),
\* ReservedFn(new_fn_id, new_type_id, d), uses.push(u); an insert replaces
\* the reservation the name had
reserve_decls(universe, raw, decls) ==
    IF decls = <<>> THEN [universe |-> universe, raw |-> raw]
    ELSE CASE Head(decls).k = "Struct" ->
                  reserve_decls([universe EXCEPT !.type_id = @ + 1],
                                [raw EXCEPT !.reserved_structs =
                                     (Head(decls).name :>
                                          [type_id |-> universe.type_id, decl |-> Head(decls)]) @@ @],
                                Tail(decls))
           [] Head(decls).k = "Function" ->
                  reserve_decls([universe EXCEPT !.type_id = @ + 1, !.fn_id = @ + 1],
                                [raw EXCEPT !.reserved_fns =
                                     (Head(decls).name :>
                                          [fn_id |-> universe.fn_id,
                                           type_id |-> universe.type_id,
                                           decl |-> Head(decls)]) @@ @],
                                Tail(decls))
           [] Head(decls).k = "Use" ->
                  reserve_decls(universe, [raw EXCEPT !.uses = Append(@, Head(decls).name)],
                                Tail(decls))

RECURSIVE raw_mod_data(_, _, _)
\* raw_mod_data(program, modules): mod_map, or Err::MissingModName
raw_mod_data(universe, mod_map, mods) ==
    IF mods = <<>> THEN [universe |-> universe, mod_map |-> mod_map, err |-> ""]
    ELSE Bind(reserve_decls(universe,
                            [name |-> Head(mods).name, id |-> None, reserved_structs |-> <<>>,
                             reserved_fns |-> <<>>, uses |-> <<>>],
                            Head(mods).decls), LAMBDA r:
             IF Head(mods).name = ""
             THEN [universe |-> r.universe, mod_map |-> mod_map, err |-> "MissingModName"]
             ELSE raw_mod_data([r.universe EXCEPT !.module_id = @ + 1],
                               (r.universe.module_id :> [r.raw EXCEPT !.id = r.universe.module_id])
                                   @@ mod_map,
                               Tail(mods)))

\* "Map reserved data": for each module the standard scope with its own
\* structs and functions (map_internal_data), and raw_map, where the last
\* module of a name wins
RawProgram(raw_data, order) ==
    [scopes |-> [id \in DOMAIN raw_data |->
                     [types |-> [p \in { <<n>> : n \in DOMAIN raw_data[id].reserved_structs } |->
                                     raw_data[id].reserved_structs[p[1]].type_id]
                                @@ std.scope.types,
                      fns |-> [p \in { <<n>> : n \in DOMAIN raw_data[id].reserved_fns } |->
                                   raw_data[id].reserved_fns[p[1]].fn_id]
                              @@ std.scope.fns]],
     raw_map |-> [n \in { raw_data[id].name : id \in DOMAIN raw_data } |->
                      order[CHOOSE i \in DOMAIN order :
                                /\ raw_data[order[i]].name = n
                                /\ \A j \in DOMAIN order :
                                       raw_data[order[j]].name = n => j <= i]],
     dependencies |-> <<>>, err |-> ""]

\* the bindings of a scope under the prefix import_name
prefixed(bindings, import_name) ==
    [p \in { <<import_name>> \o q : q \in DOMAIN bindings } |-> bindings[Tail(p)]]

\* "Bring imported types into scope": insert_type(..).is_some() panics
use_types(scope, all_types) ==
    IF DOMAIN all_types \cap DOMAIN scope.types # {}
    THEN [scope |-> [scope EXCEPT !.types = all_types @@ @], err |-> "Panic"]
    ELSE [scope |-> [scope EXCEPT !.types = all_types @@ @], err |-> ""]

RECURSIVE map_uses(_, _, _, _)
\* "for use_decl in raw_mod.uses.iter()" of the module id; the functions
\* are brought into scope by insert_fn, whose result is dropped
map_uses(raw_prog, id, uses, dependencies) ==
    IF raw_prog.err # "" THEN raw_prog
    ELSE IF uses = <<>>
    THEN [raw_prog EXCEPT !.dependencies = (id :> dependencies) @@ @]
    ELSE IF Head(uses) \notin DOMAIN raw_prog.raw_map
    THEN [raw_prog EXCEPT !.err = "UnresolvedUses"]
    ELSE Bind(raw_prog.scopes[raw_prog.raw_map[Head(uses)]], LAMBDA imported_scope:
         Bind(use_types(raw_prog.scopes[id], prefixed(imported_scope.types, Head(uses))),
              LAMBDA t:
             map_uses([raw_prog EXCEPT
                           !.scopes[id] =
                               [t.scope EXCEPT !.fns = prefixed(imported_scope.fns, Head(uses)) @@ @],
                           !.err = t.err],
                      id, Tail(uses),
                      Append(dependencies, raw_prog.raw_map[Head(uses)]))))

RECURSIVE map_usings(_, _, _)
\* map_usings(raw_modules, raw_prog), the modules taken in the given order
map_usings(raw_modules, raw_prog, order) ==
    IF order = <<>> \/ raw_prog.err # "" THEN raw_prog
    ELSE map_usings(raw_modules,
                    map_uses(raw_prog, Head(order), raw_modules[Head(order)].uses, <<>>),
                    Tail(order))

\* all orders in which the elements of S can be iterated
RECURSIVE Perms(_)
Perms(S) ==
    IF S = {} THEN {<<>>}
    ELSE Union({ { <<x>> \o r : r \in Perms(S \ {x}) } : x \in S })

RECURSIVE items_in_order(_, _, _)
\* the <<module, name>> pairs a nested iteration visits: the modules in
\* order, the names of each module in the order inner[module]
items_in_order(order, inner, k) ==
    IF k > Len(order) THEN <<>>
    ELSE [i \in 1..Len(inner[order[k]]) |-> <<order[k], inner[order[k]][i]>>]
         \o items_in_order(order, inner, k + 1)

\* generate_struct_type: the field type looked up in the module's scope
generate_struct_type(scope, struct_def) ==
    IF struct_def.ref = NoPath THEN [struct_type |-> [kind |-> "Struct", fields |-> <<>>], err |-> ""]
    ELSE IF struct_def.ref \notin DOMAIN scope.types THEN [struct_type |-> <<>>, err |-> "UnknownType"]
    ELSE [struct_type |-> [kind |-> "Struct", fields |-> <<scope.types[struct_def.ref]>>],
          err |-> ""]

RECURSIVE cyclic_type_check(_, _, _, _)
\* cyclic_type_check(program, root_id), from "let depth = to_visit" on: the
\* results it can return, one for every order the HashSet of a struct's
\* field types can be collected in.  depth is what is left of the depth
\* being scanned and to_visit the vector the scan has built so far, which
\* the Struct arm replaces and the Array arm extends
cyclic_type_check(universe, visited_structs, depth, to_visit) ==
    IF depth = <<>>
    THEN IF Len(to_visit) = 0 THEN {"Ok"}
         ELSE cyclic_type_check(universe, visited_structs, to_visit, <<>>)
    ELSE IF Head(depth) \in visited_structs THEN {"CyclicType"}
    ELSE IF universe.types[Head(depth)].kind = "Struct"
    THEN Union({ cyclic_type_check(universe, visited_structs \cup {Head(depth)},
                                   Tail(depth), set) :
                 set \in Perms({ universe.types[Head(depth)].fields[i] :
                                     i \in DOMAIN universe.types[Head(depth)].fields }) })
    ELSE IF universe.types[Head(depth)].kind = "Array"
    THEN cyclic_type_check(universe, visited_structs, Tail(depth),
                           Append(to_visit, universe.types[Head(depth)].base_type))
    ELSE cyclic_type_check(universe, visited_structs, Tail(depth), to_visit)

\* the bodies the functions of a program are given
FnBodies == {<<>>, <<ReturnS(TRUE)>>, <<BreakS>>}

\* resolve_scope::resolve: the function called must be bound in the scope
resolve_scope(scope, fn_decl) ==
    IF fn_decl.ref = NoPath \/ fn_decl.ref \in DOMAIN scope.fns THEN "Ok" ELSE "UnknownFn"

\* faulty variant: the result of scope resolution is not looked at
analyze_fn_unchecked(phase, result) ==
    CASE phase = "resolve_scope" -> "type_check"
      [] phase = "type_check" -> IF result # "Ok" THEN "failed" ELSE "return_trace"
      [] phase = "return_trace" -> IF result # "Ok" THEN "failed" ELSE "done"

\* analysis_helpers::analyze_fn: resolve(..)?; type_check(..)?; return_trace(..)?
\* the phase entered after phase returned result
analyze_fn(phase, result) ==
    IF result # "Ok" THEN "failed"
    ELSE CASE phase = "resolve_scope" -> "type_check"
           [] phase = "type_check" -> "return_trace"
           [] phase = "return_trace" -> "done"

(***************************************************************************)
(* check_modules as a state machine.  mr holds its locals: raw_data, the   *)
(* order its HashMaps iterate in, raw_program, type_roots, the position of *)
(* the loop it is in, and the Program's universe; registered and built are *)
(* the TypeIds inserted into the universe and the FnIds whose CFG has been *)
(* generated; log lists the analysis phases that have run.                 *)
(***************************************************************************)
InitModules ==
    /\ pc = "check_modules"
    /\ modules \in Programs(MaxDecls)
    /\ mr = [universe |-> std.universe, raw_data |-> <<>>, order |-> <<>>,
             structs |-> <<>>, fns |-> <<>>, raw_program |-> <<>>,
             type_roots |-> <<>>, next |-> 1,
             registered |-> {}, built |-> {}, log |-> <<>>, result |-> "none"]
    /\ body = <<>> /\ fn_type = "Unit" /\ cfg = NoCFG
    /\ gen_result = "none" /\ trace_result = "none"
    /\ ast_expr = NoAst /\ expr = NoExpr
    /\ op_in = Unused /\ op_out = Unused
    /\ fn_in = Unused /\ ck = Unused

\* faulty variant: the functions are generated before the structs are mapped
after_fns_first(stage, m) ==
    CASE stage = "usings" /\ m.fns # <<>> -> "fns"
      [] stage \in {"usings", "fns"} /\ m.structs # <<>> /\ m.type_roots = <<>> -> "structs"
      [] stage \in {"usings", "structs", "fns"} /\ m.type_roots # <<>> -> "roots"
      [] m.fns # <<>> -> "resolve_scope"
      [] OTHER -> "map_modules"

\* the stage check_modules is in when the loop of stage has nothing left
\* to visit: the next loop that has something to visit
after(stage, m) ==
    CASE stage = "usings" /\ m.structs # <<>> -> "structs"
      [] stage \in {"usings", "structs"} /\ m.fns # <<>> -> "fns"
      [] stage \in {"usings", "structs", "fns"} /\ m.type_roots # <<>> -> "roots"
      [] m.fns # <<>> -> "resolve_scope"
      [] OTHER -> "map_modules"

\* the reservation of the struct / function the loop is at
ThisStruct == mr.raw_data[mr.structs[mr.next][1]].reserved_structs[mr.structs[mr.next][2]]
ThisFn == mr.raw_data[mr.fns[mr.next][1]].reserved_fns[mr.fns[mr.next][2]]

\* "let mut raw_data = raw_mod_data(program, modules)?"
RawModDataStep ==
    /\ pc = "check_modules"
    /\ \E r \in {raw_mod_data(mr.universe, <<>>, modules)} :
           IF r.err # "" THEN mr' = [mr EXCEPT !.result = r.err] /\ pc' = "failed"
           ELSE \E order \in Perms(DOMAIN r.mod_map) :
                \E structs \in [DOMAIN r.mod_map -> Union({ Perms(DOMAIN r.mod_map[id].reserved_structs) : id \in DOMAIN r.mod_map })] :
                \E fns \in [DOMAIN r.mod_map -> Union({ Perms(DOMAIN r.mod_map[id].reserved_fns) : id \in DOMAIN r.mod_map })] :
                    /\ \A id \in DOMAIN r.mod_map :
                           /\ structs[id] \in Perms(DOMAIN r.mod_map[id].reserved_structs)
                           /\ fns[id] \in Perms(DOMAIN r.mod_map[id].reserved_fns)
                    /\ mr' = [mr EXCEPT !.universe = r.universe, !.raw_data = r.mod_map,
                                        !.order = order,
                                        !.structs = items_in_order(order, structs, 1),
                                        !.fns = items_in_order(order, fns, 1)]
                    /\ pc' = "map_reserved"
    /\ UNCHANGED <<cfg_vars, flatten_vars, modules, op_vars, check_vars>>

\* "Map reserved data" and "map_usings(&raw_data, &mut raw_program)?"
MapUsings ==
    /\ pc = "map_reserved"
    /\ \E r \in {map_usings(mr.raw_data, RawProgram(mr.raw_data, mr.order), mr.order)} :
           IF r.err # "" THEN mr' = [mr EXCEPT !.result = r.err] /\ pc' = "failed"
           ELSE /\ mr' = [mr EXCEPT !.raw_program = r]
                /\ pc' = after("usings", mr)
    /\ UNCHANGED <<cfg_vars, flatten_vars, modules, op_vars, check_vars>>

\* "Map ALL structs into the universe before generating functions": one
\* iteration, generate_struct_type(..)? then insert_type and type_roots.push
GenerateStructType ==
    /\ pc = "structs"
    /\ \E r \in {generate_struct_type(mr.raw_program.scopes[mr.structs[mr.next][1]],
                                      ThisStruct.decl)} :
           IF r.err # "" THEN mr' = [mr EXCEPT !.result = r.err] /\ pc' = "failed"
           ELSE \E m \in {[mr EXCEPT !.universe.types = (ThisStruct.type_id :> r.struct_type) @@ @,
                                     !.type_roots = Append(@, ThisStruct.type_id),
                                     !.registered = @ \cup {ThisStruct.type_id},
                                     !.next = IF @ < Len(mr.structs) THEN @ + 1 ELSE 1]} :
                    /\ mr' = m
                    /\ pc' = IF mr.next < Len(mr.structs) THEN "structs" ELSE after("structs", m)
    /\ UNCHANGED <<cfg_vars, flatten_vars, modules, op_vars, check_vars>>

\* one iteration of the loop over the reserved functions: generate_fn_type(..)?,
\* CFG::generate(program.universe(), fn_decl.body.clone(), &fn_type)?, and
\* then insert_fn(fn_id, type_id, fn_type, cfg)
GenerateFn ==
    /\ pc = "fns"
    /\ \E t \in FnTypes, b \in FnBodies :
       \E g \in {generate(b, t)} :
           IF g.result # "Ok"
           THEN mr' = [mr EXCEPT !.result = g.result] /\ pc' = "failed"
           ELSE \E m \in {[mr EXCEPT !.universe.types =
                                         (ThisFn.type_id :> [kind |-> "Function", fields |-> <<>>]) @@ @,
                                     !.universe.fns =
                                         (ThisFn.fn_id :> [type_id |-> ThisFn.type_id,
                                                           fn_type |-> t, cfg |-> g.cfg]) @@ @,
                                     !.built = @ \cup {ThisFn.fn_id},
                                     !.registered = @ \cup {ThisFn.type_id},
                                     !.next = IF @ < Len(mr.fns) THEN @ + 1 ELSE 1]} :
                    /\ mr' = m
                    /\ pc' = IF mr.next < Len(mr.fns) THEN "fns" ELSE after("fns", m)
    /\ UNCHANGED <<cfg_vars, flatten_vars, modules, op_vars, check_vars>>

\* "for root in type_roots.into_iter() { cyclic_type_check(program, root)?; .. }"
CyclicTypeCheck ==
    /\ pc = "roots"
    /\ \E r \in cyclic_type_check(mr.universe, {}, <<mr.type_roots[mr.next]>>, <<>>) :
           IF r # "Ok" THEN mr' = [mr EXCEPT !.result = r] /\ pc' = "failed"
           ELSE /\ mr' = [mr EXCEPT !.next = IF @ < Len(mr.type_roots) THEN @ + 1 ELSE 1]
                /\ pc' = IF mr.next < Len(mr.type_roots) THEN "roots" ELSE after("roots", mr)
    /\ UNCHANGED <<cfg_vars, flatten_vars, modules, op_vars, check_vars>>

\* "analyze_fn(program, scope, fn_id, mod_id)?" for the function the last
\* loop is at, one phase at a time: resolve_scope::resolve(universe, fn_id),
\* type_checker::type_check(..) or return_trace::return_trace(universe,
\* fn_id); the phase is logged with its result
AnalyzeFnPhase ==
    /\ pc \in {"resolve_scope", "type_check", "return_trace"}
    /\ \E result \in CASE pc = "resolve_scope" ->
                              {resolve_scope(mr.raw_program.scopes[mr.fns[mr.next][1]], ThisFn.decl)}
                       [] pc = "type_check" -> {"Ok", "TypeError"}
                       [] pc = "return_trace" ->
                              {return_trace(mr.universe.fns[ThisFn.fn_id].cfg)} :
       \E to \in {analyze_fn(pc, result)} :
       \E m \in {[mr EXCEPT !.log = Append(@, [fn_id |-> ThisFn.fn_id, phase |-> pc,
                                               result |-> result])]} :
           CASE to = "failed" ->
                    /\ mr' = [m EXCEPT !.result = result]
                    /\ pc' = "failed"
             [] to = "done" ->
                    /\ mr' = [m EXCEPT !.next = IF @ < Len(mr.fns) THEN @ + 1 ELSE 1]
                    /\ pc' = IF mr.next < Len(mr.fns) THEN "resolve_scope" ELSE "map_modules"
             [] OTHER ->
                    /\ mr' = m
                    /\ pc' = to
    /\ UNCHANGED <<cfg_vars, flatten_vars, modules, op_vars, check_vars>>

\* "program.universe_mut().map_module(mod_id, name, module)" for every
\* module, then "Ok(())"
MapModules ==
    /\ pc = "map_modules"
    /\ mr' = [mr EXCEPT !.universe.modules =
                            [n \in DOMAIN mr.raw_program.raw_map |->
                                 [id |-> mr.raw_program.raw_map[n],
                                  scope |-> mr.raw_program.scopes[mr.raw_program.raw_map[n]],
                                  dependencies |->
                                      mr.raw_program.dependencies[mr.raw_program.raw_map[n]]]],
                        !.result = "Ok"]
    /\ pc' = "checked"
    /\ UNCHANGED <<cfg_vars, flatten_vars, modules, op_vars, check_vars>>

NextModules ==
    \/ RawModDataStep
    \/ MapUsings
    \/ GenerateStructType
    \/ GenerateFn
    \/ CyclicTypeCheck
    \/ AnalyzeFnPhase
    \/ MapModules

SpecModules == InitModules /\ [][NextModules]_vars

(***************************************************************************)
(* The pure operations of type checking: resolve_bin_op and the check of   *)
(* a call against the callee's type, each as type_checker.rs and as        *)
(* fn_analyzer.rs have it, and the application of a type constructor of    *)
(* type_cons.rs.  The primitive types are their names; an Option is <<>>   *)
(* for None and <<v>> for Some(v).                                         *)
(***************************************************************************)
\* type_checker.rs resolve_bin_op; Eq and InEq resolve lhs against rhs
resolve_bin_op(op, lhs, rhs) ==
    CASE op \in {"Add", "Sub", "Mul", "Div", "Mod"} ->
             IF lhs = "Int" /\ rhs = "Int" THEN [type |-> "Int", err |-> ""]
             ELSE IF lhs = "Float" /\ rhs = "Float" THEN [type |-> "Float", err |-> ""]
             ELSE [type |-> "", err |-> "BinOp"]
      [] op \in {"LogicalAnd", "LogicalOr"} ->
             IF lhs = "Bool" /\ rhs = "Bool" THEN [type |-> "Bool", err |-> ""]
             ELSE [type |-> "", err |-> "BinOp"]
      [] op \in {"GreaterEq", "LesserEq", "Greater", "Lesser"} ->
             IF lhs = "Int" /\ rhs = "Int" THEN [type |-> "Bool", err |-> ""]
             ELSE IF lhs = "Float" /\ rhs = "Float" THEN [type |-> "Bool", err |-> ""]
             ELSE [type |-> "", err |-> "BinOp"]
      [] op \in {"Eq", "InEq"} ->
             IF lhs = rhs THEN [type |-> "Bool", err |-> ""]
             ELSE [type |-> "", err |-> "UnexpectedType"]

\* fn_analyzer.rs resolve_bin_op: the comparisons share the arm of the
\* arithmetic operators
fn_analyzer_resolve_bin_op(op, lhs, rhs) ==
    CASE op \in {"Add", "Sub", "Mul", "Div", "Mod",
                 "GreaterEq", "LesserEq", "Greater", "Lesser"} ->
             IF lhs = "Int" /\ rhs = "Int" THEN [type |-> "Int", err |-> ""]
             ELSE IF lhs = "Float" /\ rhs = "Float" THEN [type |-> "Float", err |-> ""]
             ELSE [type |-> "", err |-> "BinOp"]
      [] op \in {"LogicalAnd", "LogicalOr"} ->
             IF lhs = "Bool" /\ rhs = "Bool" THEN [type |-> "Bool", err |-> ""]
             ELSE [type |-> "", err |-> "BinOp"]
      [] op \in {"Eq", "InEq"} ->
             IF lhs = rhs THEN [type |-> "Bool", err |-> ""]
             ELSE [type |-> "", err |-> "LhsRhsInEq"]

\* type_checker.rs resolve_fn_call: fn_value_type is the type of the callee,
\* args the Option of the argument types.  The loop over the zipped
\* arguments and parameters has its check in a comment.
resolve_fn_call(fn_value_type, args) ==
    CASE fn_value_type.k = "Function" ->
             IF args # <<>> /\ Len(fn_value_type.parameters) # Len(args[1])
             THEN [type |-> "", err |-> "Arity"]
             ELSE IF args = <<>> /\ Len(fn_value_type.parameters) # 0
             THEN [type |-> "", err |-> "Arity"]
             ELSE [type |-> fn_value_type.return_type, err |-> ""]
      [] fn_value_type.k = "UncheckedFunction" ->
             [type |-> fn_value_type.return_type, err |-> ""]
      [] OTHER -> [type |-> "", err |-> "Panic"]

\* fn_analyzer.rs resolve_expr, Value::FnCall: arity, then "arg_type != param_type"
fn_analyzer_resolve_fn_call(fn_value_type, args) ==
    CASE fn_value_type.k = "Function" ->
             IF args # <<>> /\ Len(fn_value_type.parameters) # Len(args[1])
             THEN [type |-> "", err |-> "Arity"]
             ELSE IF args = <<>> /\ Len(fn_value_type.parameters) # 0
             THEN [type |-> "", err |-> "Arity"]
             ELSE IF args # <<>> /\ \E index \in DOMAIN args[1] :
                                        args[1][index] # fn_value_type.parameters[index]
             THEN [type |-> "", err |-> "ArgMismatch"]
             ELSE [type |-> fn_value_type.return_type, err |-> ""]
      [] OTHER -> [type |-> "", err |-> "Panic"]

\* type_cons.rs TypeApp: Applied { type_cons, args } and Param(id)
TypeApp(k, type_cons, args, param) ==
    [k |-> k, type_cons |-> type_cons, args |-> args, param |-> param]

\* type_cons.rs TypeCons: parts are the parameters followed by the return
\* type of a function, the element type of an array, the fields of a record
TypeCons(k, type_id, type_params, parts) ==
    [k |-> k, type_id |-> type_id, type_params |-> type_params, parts |-> parts]

\* a universe of type constructors: Int, Bool, struct A { x: int },
\* struct B(type T) { x: T }, fn(type U)(U) -> bool, fn(int) -> bool,
\* [int; n], struct C(type V) { x: B(type V) }
TypeUniverse ==
    [type_id |-> 9,
     type_cons |->
         <<TypeCons("Int", 0, <<>>, <<>>),
           TypeCons("Bool", 0, <<>>, <<>>),
           TypeCons("Record", 3, <<>>, <<TypeApp("Applied", 1, <<>>, 0)>>),
           TypeCons("Record", 4, << <<1>> >>, <<TypeApp("Param", 0, <<>>, 1)>>),
           TypeCons("Function", 0, << <<2>> >>,
                    <<TypeApp("Param", 0, <<>>, 2), TypeApp("Applied", 2, <<>>, 0)>>),
           TypeCons("Function", 0, <<>>,
                    <<TypeApp("Applied", 1, <<>>, 0), TypeApp("Applied", 2, <<>>, 0)>>),
           TypeCons("Array", 0, <<>>, <<TypeApp("Applied", 1, <<>>, 0)>>),
           TypeCons("Record", 8, << <<3>> >>,
                    <<TypeApp("Applied", 4, << <<TypeApp("Param", 0, <<>>, 3)>> >>, 0)>>)>>]

RECURSIVE GroundApps(_), GroundArgs(_, _)
\* a universe of type constructors that mention themselves: Int,
\* struct A { x: [A; n] }, [A; n], struct L(type T) { next: L(type T) },
\* struct W(type U) { x: U }
RecursiveUniverse ==
    [type_id |-> 6,
     type_cons |->
         <<TypeCons("Int", 0, <<>>, <<>>),
           TypeCons("Record", 2, <<>>, <<TypeApp("Applied", 3, <<>>, 0)>>),
           TypeCons("Array", 0, <<>>, <<TypeApp("Applied", 2, <<>>, 0)>>),
           TypeCons("Record", 4, << <<1>> >>,
                    <<TypeApp("Applied", 4, << <<TypeApp("Param", 0, <<>>, 1)>> >>, 0)>>),
           TypeCons("Record", 5, << <<2>> >>, <<TypeApp("Param", 0, <<>>, 2)>>)>>]

\* the applications without type parameters of exactly n nodes
GroundApps(n) ==
    IF n < 1 THEN {}
    ELSE Union({ { TypeApp("Applied", tc, args, 0) :
                       args \in (IF n = 1 THEN {<<>>, << <<>> >>} ELSE {})
                                \cup { <<a>> : a \in Union({ GroundArgs(n - 1, m) : m \in 1..MaxArgs }) } } :
                 tc \in DOMAIN TypeUniverse.type_cons })

\* the lists of m applications of n nodes together
GroundArgs(n, m) ==
    IF m = 0 THEN (IF n = 0 THEN {<<>>} ELSE {})
    ELSE Union({ { <<a>> \o r : a \in GroundApps(j), r \in GroundArgs(n - j, m - 1) } :
                 j \in 1..n })

RECURSIVE apply_internal(_, _, _, _), apply_parts(_, _, _, _, _)
\* "app.apply_internal(universe, param_map)" over the parts of a type
\* constructor, ended by the first Err
apply_parts(universe, parts, param_map, done, calls) ==
    IF parts = <<>> THEN [universe |-> universe, parts |-> done, err |-> ""]
    ELSE Bind(apply_internal(universe, Head(parts), param_map, calls), LAMBDA r:
             IF r.err # "" THEN [universe |-> r.universe, parts |-> done, err |-> r.err]
             ELSE apply_parts(r.universe, Tail(parts), param_map, Append(done, r.result), calls))

\* TypeApp::apply_internal(&self, universe, param_map).  calls holds the
\* receiver and the param_map of the calls in progress: what a call does
\* depends on them and on the constructors they name only, which an insert
\* into the universe never replaces, so that a call that repeats one in
\* progress recurses until the stack overflows
apply_internal(universe, app, param_map, calls) ==
    IF <<app, param_map>> \in calls
    THEN [universe |-> universe, result |-> app, err |-> "StackOverflow"]
    ELSE IF app.k = "Param"
    THEN IF app.param \in DOMAIN param_map
         THEN apply_internal(universe, param_map[app.param], param_map,
                             calls \cup {<<app, param_map>>})
         ELSE [universe |-> universe, result |-> app, err |-> ""]
    ELSE Bind(universe.type_cons[app.type_cons], LAMBDA type_cons:
         IF \/ (type_cons.type_params # <<>> /\ app.args # <<>>
                    /\ Len(type_cons.type_params[1]) # Len(app.args[1]))
            \/ (type_cons.type_params # <<>> /\ app.args = <<>>)
            \/ (type_cons.type_params = <<>> /\ app.args # <<>>)
         THEN [universe |-> universe, result |-> app, err |-> "Arity"]
         ELSE IF type_cons.k \notin {"Function", "UncheckedFunction", "Array", "Record"}
         THEN [universe |-> universe, result |-> app, err |-> ""]
         ELSE Bind(apply_parts(universe, type_cons.parts,
                               IF type_cons.type_params = <<>> THEN param_map
                               ELSE [p \in { type_cons.type_params[1][i] :
                                                 i \in DOMAIN type_cons.type_params[1] } |->
                                         app.args[1][CHOOSE i \in DOMAIN app.args[1] :
                                                         /\ type_cons.type_params[1][i] = p
                                                         /\ \A j \in DOMAIN app.args[1] :
                                                                type_cons.type_params[1][j] = p
                                                                    => j <= i]]
                                    @@ param_map,
                               <<>>, calls \cup {<<app, param_map>>}), LAMBDA r:
              IF r.err # "" THEN [universe |-> r.universe, result |-> app, err |-> r.err]
              ELSE [universe |->
                        [type_id |-> r.universe.type_id + 1,
                         type_cons |-> Append(r.universe.type_cons,
                                              [type_cons EXCEPT !.parts = r.parts])],
                    result |-> TypeApp("Applied", r.universe.type_id, <<>>, 0),
                    err |-> ""]))

\* type_cons_gen::generate_struct_type_cons, the loop over the fields of
\* the body: field i is given the FieldId field_id + i - 1, its type is
\* resolved (an annotation of "X" names no type), and a name that field_map
\* already holds ends the loop with FieldNamingConflict
generate_struct_type_cons(field_id, struct_body) ==
    IF \E i \in DOMAIN struct_body :
           struct_body[i].field_type = "X" \/ \E j \in 1..(i - 1) : struct_body[j].name = struct_body[i].name
    THEN Bind(CHOOSE i \in DOMAIN struct_body :
                  /\ struct_body[i].field_type = "X" \/ \E j \in 1..(i - 1) : struct_body[j].name = struct_body[i].name
                  /\ \A k \in 1..(i - 1) :
                         ~(struct_body[k].field_type = "X" \/ \E j \in 1..(k - 1) : struct_body[j].name = struct_body[k].name),
              LAMBDA i :
                  [err |-> IF struct_body[i].field_type = "X" THEN "UnknownType" ELSE "FieldNamingConflict",
                   field_id |-> field_id + i])
    ELSE [err |-> "", field_id |-> field_id + Len(struct_body),
          fields |-> [f \in field_id..(field_id + Len(struct_body) - 1) |-> struct_body[f - field_id + 1].field_type],
          field_map |-> [n \in { struct_body[i].name : i \in DOMAIN struct_body } |->
                            field_id - 1 + CHOOSE i \in DOMAIN struct_body : struct_body[i].name = n],
          order |-> [i \in DOMAIN struct_body |-> field_id + i - 1]]

\* mod_resolver::generate_struct_type, the loop over the fields of the
\* body: as above, but field_map.insert(f_name, f_id) replaces what
\* field_map holds for the name
generate_struct_type_fields(field_id, struct_body) ==
    IF \E i \in DOMAIN struct_body : struct_body[i].field_type = "X"
    THEN [err |-> "UnknownType",
          field_id |-> field_id + CHOOSE i \in DOMAIN struct_body :
                                      /\ struct_body[i].field_type = "X"
                                      /\ \A k \in 1..(i - 1) : struct_body[k].field_type # "X"]
    ELSE [err |-> "", field_id |-> field_id + Len(struct_body),
          fields |-> [f \in field_id..(field_id + Len(struct_body) - 1) |-> struct_body[f - field_id + 1].field_type],
          field_map |-> [n \in { struct_body[i].name : i \in DOMAIN struct_body } |->
                            field_id - 1 + CHOOSE i \in DOMAIN struct_body :
                                               /\ struct_body[i].name = n
                                               /\ \A j \in DOMAIN struct_body : struct_body[j].name = n => j <= i],
          order |-> [i \in DOMAIN struct_body |-> field_id + i - 1]]

\* type_app_from_annotation, the FnType arm with local type parameters: one
\* TypeParamId is drawn before the loop, every parameter is inserted into
\* the new scope with it, where insert_type_param reports a name the scope
\* holds already, and it is pushed for every parameter
type_app_from_annotation(type_param_id, scope, local_type_params) ==
    IF \E i \in DOMAIN local_type_params :
           \/ local_type_params[i] \in DOMAIN scope.type_params
           \/ \E j \in 1..(i - 1) : local_type_params[j] = local_type_params[i]
    THEN [err |-> "TypeParameterNamingConflict", type_param_id |-> type_param_id + 1]
    ELSE [err |-> "", type_param_id |-> type_param_id + 1,
          new_scope |-> [scope EXCEPT !.type_params =
                             [n \in { local_type_params[i] : i \in DOMAIN local_type_params } |->
                                  type_param_id] @@ @],
          type_params |-> [i \in DOMAIN local_type_params |-> type_param_id]]

\* type_checker::resolve_struct_init for a type name that resolves to the
\* record struct_type: the initialisers are mapped to the FieldIds of their
\* names (UnknownField for a name field_map does not hold, a panic for a
\* second initialiser of a field), a map of another size than fields is
\* StructNotFullyInitialized with the names that the filter keeps, and then
\* the type of every initialiser is resolved against the type of its field.
\* The check of is_opaque is commented out
resolve_struct_init(struct_type, init) ==
    IF \E i \in DOMAIN init :
           \/ init[i].name \notin DOMAIN struct_type.field_map
           \/ \E j \in 1..(i - 1) : init[j].name = init[i].name
    THEN Bind(CHOOSE i \in DOMAIN init :
                  /\ \/ init[i].name \notin DOMAIN struct_type.field_map
                     \/ \E j \in 1..(i - 1) : init[j].name = init[i].name
                  /\ \A k \in 1..(i - 1) :
                         /\ init[k].name \in DOMAIN struct_type.field_map
                         /\ \A j \in 1..(k - 1) : init[j].name # init[k].name,
              LAMBDA i :
                  [err |-> IF init[i].name \notin DOMAIN struct_type.field_map
                           THEN "UnknownField" ELSE "Panic",
                   missing_fields |-> {}])
    ELSE Bind({ struct_type.field_map[init[i].name] : i \in DOMAIN init },
              LAMBDA init_expr_type_map :
         IF Cardinality(init_expr_type_map) # Cardinality(DOMAIN struct_type.fields)
         THEN [err |-> "StructNotFullyInitialized",
               missing_fields |-> { n \in DOMAIN struct_type.field_map :
                                        struct_type.field_map[n] \in init_expr_type_map }]
         ELSE IF \E i \in DOMAIN init :
                     init[i].tmp_type # struct_type.fields[struct_type.field_map[init[i].name]]
         THEN [err |-> "UnexpectedType", missing_fields |-> {}]
         ELSE [err |-> "", missing_fields |-> {}])

\* fn_analyzer, Value::StructInit: set_field_init maps the initialisers to
\* FieldIds or returns the names the struct does not declare, which are
\* reported as StructNotFullyInitialized; a list of another length than
\* fields is StructNotFullyInitialized with the names whose FieldId is not
\* initialised; then the types are compared.  given is whether the
\* expression has a list of initialisers
fn_analyzer_resolve_struct_init(struct_type, given, init) ==
    IF \E i \in DOMAIN init : init[i].name \notin DOMAIN struct_type.field_map
    THEN [err |-> "StructNotFullyInitialized",
          missing_fields |-> { init[i].name : i \in { j \in DOMAIN init :
                                   init[j].name \notin DOMAIN struct_type.field_map } }]
    ELSE IF ~given
    THEN IF Cardinality(DOMAIN struct_type.fields) # 0
         THEN [err |-> "StructNotFullyInitialized",
               missing_fields |-> DOMAIN struct_type.field_map]
         ELSE [err |-> "", missing_fields |-> {}]
    ELSE IF Len(init) # Cardinality(DOMAIN struct_type.fields)
    THEN [err |-> "StructNotFullyInitialized",
          missing_fields |-> { n \in DOMAIN struct_type.field_map :
                                   \A i \in DOMAIN init :
                                       struct_type.field_map[init[i].name]
                                           # struct_type.field_map[n] }]
    ELSE IF \E i \in DOMAIN init :
                init[i].tmp_type # struct_type.fields[struct_type.field_map[init[i].name]]
    THEN [err |-> "UnexpectedType", missing_fields |-> {}]
    ELSE [err |-> "", missing_fields |-> {}]

RECURSIVE StructUniverses(_)
\* the universes of MaxStructs structs with at most n fields together: the
\* type of every field is one of the structs (the fields of a struct are a
\* HashMap, so that every list of field types is drawn in one order only)
StructUniverses(n) ==
    IF n = 0 THEN {[types |-> [id \in 1..MaxStructs |-> [kind |-> "Struct", fields |-> <<>>]]]}
    ELSE Bind(StructUniverses(n - 1), LAMBDA smaller:
             IF Cardinality(smaller) = 0 THEN {}
             ELSE smaller
                  \cup { IF \A i \in DOMAIN u.types[x[1]].fields :
                                 u.types[x[1]].fields[i] <= x[2]
                         THEN [u EXCEPT !.types[x[1]].fields = Append(@, x[2])]
                         ELSE u :
                             u \in smaller, x \in (1..MaxStructs) \X (1..MaxStructs) })

\* the inputs: a binary operator with the types of its operands, a call
\* with the type of the callee and the types of its arguments, a type
\* application without type parameters in a universe of constructors that
\* do not mention themselves or a type application in a universe of
\* constructors that do, a universe of structs with the
\* types of their fields, the fields of the body of a struct declaration
\* with the generator that is given them, the local type parameters of a
\* function-type annotation with the type parameters in scope, or a struct
\* initialisation with the record type of its struct, whether the struct is
\* annotated opaque, and the analyser that is given it
OpInputs ==
    Union({ { [kind |-> "bin_op", impl |-> i, op |-> op, lhs |-> l, rhs |-> r] :
                  i \in {"type_checker", "fn_analyzer"},
                  op \in {"Add", "Sub", "Mul", "Div", "Mod", "LogicalAnd", "LogicalOr",
                          "GreaterEq", "LesserEq", "Greater", "Lesser", "Eq", "InEq"},
                  l \in {"Int", "Float", "Bool", "String", "Unit"},
                  r \in {"Int", "Float", "Bool", "String", "Unit"} },
            { [kind |-> "fn_call", impl |-> x[1],
               fn_value_type |-> [k |-> x[2], parameters |-> ps, return_type |-> t],
               args |-> as] :
                  x \in {<<"type_checker", "Function">>, <<"type_checker", "UncheckedFunction">>,
                         <<"fn_analyzer", "Function">>},
                  t \in {"Int", "Bool"},
                  ps \in Union({ [1..n -> {"Int", "Bool"}] : n \in 0..MaxArgs }),
                  as \in {<<>>} \cup { <<a>> : a \in Union({ [1..n -> {"Int", "Bool"}] :
                                                           n \in 0..MaxArgs }) } },
            { [kind |-> "apply", universe |-> TypeUniverse, app |-> a] :
                  a \in Union({ GroundApps(n) : n \in 1..MaxTypeSize }) },
            { [kind |-> "apply", universe |-> RecursiveUniverse,
               app |-> TypeApp("Applied", tc, args, 0)] :
                  tc \in DOMAIN RecursiveUniverse.type_cons,
                  args \in {<<>>, << <<TypeApp("Applied", 1, <<>>, 0)>> >>,
                            << <<TypeApp("Param", 0, <<>>, 1)>> >>,
                            << <<TypeApp("Param", 0, <<>>, 2)>> >>} },
            { [kind |-> "cyclic", universe |-> u] : u \in StructUniverses(MaxFields) },
            { [kind |-> "struct", impl |-> i, field_id |-> f, body |-> b] :
                  i \in {"type_cons_gen", "mod_resolver"},
                  f \in {0, 5},
                  b \in Union({ [1..n -> [name : {"a", "b", "c"}, field_type : {"int", "X"}]] :
                                  n \in 0..MaxArgs }) },
            { [kind |-> "fn_type", type_param_id |-> id, scope |-> [type_params |-> tps],
               local_type_params |-> ps] :
                  id \in {0, 5},
                  tps \in {<<>>, [n \in {"T"} |-> 3], [n \in {"V"} |-> 4]},
                  ps \in Union({ [1..n -> {"T", "U", "W"}] : n \in 1..(MaxArgs + 1) }) },
            { [kind |-> "struct_init", impl |-> i, opaque |-> o,
               struct_type |-> [fields |-> [f \in 1..n |-> "int"],
                                field_map |-> [x \in { <<"a", "b", "c">>[f] : f \in 1..n } |->
                                                  CHOOSE f \in 1..n : <<"a", "b", "c">>[f] = x]],
               init |-> l] :
                  i \in {"type_checker", "fn_analyzer"}, o \in BOOLEAN, n \in 0..MaxArgs,
                  l \in Union({ [1..m -> [name : {"a", "b", "z"}, tmp_type : {"int", "bool"}]] :
                                  m \in 0..MaxArgs }) } })

InitOps ==
    /\ pc = "start"
    /\ op_in \in OpInputs
    /\ op_out = Unused
    /\ body = <<>> /\ fn_type = "Unit" /\ cfg = NoCFG
    /\ gen_result = "none" /\ trace_result = "none"
    /\ ast_expr = NoAst /\ expr = NoExpr
    /\ modules = <<>> /\ mr = Unused
    /\ fn_in = Unused /\ ck = Unused

\* resolve_bin_op(universe, op, lhs, rhs) of the analyser chosen
ResolveBinOp ==
    /\ pc = "start"
    /\ op_in.kind = "bin_op"
    /\ op_out' = IF op_in.impl = "type_checker"
                 THEN resolve_bin_op(op_in.op, op_in.lhs, op_in.rhs)
                 ELSE fn_analyzer_resolve_bin_op(op_in.op, op_in.lhs, op_in.rhs)
    /\ pc' = "resolved"
    /\ UNCHANGED <<cfg_vars, flatten_vars, mod_vars, op_in, check_vars>>

\* the check of a call against the type of its callee, of the analyser chosen
ResolveFnCall ==
    /\ pc = "start"
    /\ op_in.kind = "fn_call"
    /\ op_out' = IF op_in.impl = "type_checker"
                 THEN resolve_fn_call(op_in.fn_value_type, op_in.args)
                 ELSE fn_analyzer_resolve_fn_call(op_in.fn_value_type, op_in.args)
    /\ pc' = "resolved"
    /\ UNCHANGED <<cfg_vars, flatten_vars, mod_vars, op_in, check_vars>>

\* TypeApp::apply(&self, universe): of the input, and of the result of
\* that application in the universe it left
Apply ==
    /\ op_in.kind = "apply"
    /\ \/ /\ pc = "start"
          /\ \E r \in {apply_internal(op_in.universe, op_in.app, <<>>, {})} :
                 /\ op_out' = [universe |-> r.universe, result |-> r.result, err |-> r.err,
                               first |-> r.result, first_universe |-> r.universe]
                 /\ pc' = IF r.err = "" THEN "applied" ELSE "failed"
       \/ /\ pc = "applied"
          /\ \E r \in {apply_internal(op_out.universe, op_out.result, <<>>, {})} :
                 /\ op_out' = [op_out EXCEPT !.universe = r.universe, !.result = r.result,
                                             !.err = r.err]
                 /\ pc' = "applied_twice"
    /\ UNCHANGED <<cfg_vars, flatten_vars, mod_vars, op_in, check_vars>>

\* "for root in type_roots.into_iter() { cyclic_type_check(program, root)?; .. }"
\* over all the structs of the universe: Err as soon as one root has it
CyclicTypeRoots ==
    /\ pc = "start"
    /\ op_in.kind = "cyclic"
    /\ \E r \in [DOMAIN op_in.universe.types -> {"Ok", "CyclicType"}] :
           /\ \A root \in DOMAIN r :
                  r[root] \in cyclic_type_check(op_in.universe, {}, <<root>>, <<>>)
           /\ op_out' = [result |-> IF \E root \in DOMAIN r : r[root] = "CyclicType"
                                    THEN "CyclicType" ELSE "Ok"]
    /\ pc' = "resolved"
    /\ UNCHANGED <<cfg_vars, flatten_vars, mod_vars, op_in, check_vars>>

\* the struct type (constructor) of a struct declaration, of the generator
\* chosen
GenerateStructFields ==
    /\ pc = "start"
    /\ op_in.kind = "struct"
    /\ op_out' = IF op_in.impl = "type_cons_gen"
                 THEN generate_struct_type_cons(op_in.field_id, op_in.body)
                 ELSE generate_struct_type_fields(op_in.field_id, op_in.body)
    /\ pc' = "resolved"
    /\ UNCHANGED <<cfg_vars, flatten_vars, mod_vars, op_in, check_vars>>

\* the local type parameters of a function-type annotation
TypeAppFromAnnotation ==
    /\ pc = "start"
    /\ op_in.kind = "fn_type"
    /\ op_out' = type_app_from_annotation(op_in.type_param_id, op_in.scope,
                                          op_in.local_type_params)
    /\ pc' = "resolved"
    /\ UNCHANGED <<cfg_vars, flatten_vars, mod_vars, op_in, check_vars>>

\* the check of a struct initialisation, of the analyser chosen; an
\* expression without initialisers has no list in fn_analyzer
ResolveStructInit ==
    /\ pc = "start"
    /\ op_in.kind = "struct_init"
    /\ op_out' = IF op_in.impl = "type_checker"
                 THEN resolve_struct_init(op_in.struct_type, op_in.init)
                 ELSE fn_analyzer_resolve_struct_init(op_in.struct_type, op_in.init # <<>>,
                                                      op_in.init)
    /\ pc' = "resolved"
    /\ UNCHANGED <<cfg_vars, flatten_vars, mod_vars, op_in, check_vars>>

NextOps ==
    \/ ResolveBinOp
    \/ ResolveFnCall
    \/ Apply
    \/ CyclicTypeRoots
    \/ GenerateStructFields
    \/ TypeAppFromAnnotation
    \/ ResolveStructInit

SpecOps == InitOps /\ [][NextOps]_vars

(***************************************************************************)
(* type_checker.rs: resolve_anonymous_fn.  The universe holds one slot per *)
(* anonymous function, Reserved (the AST only) or Resolved (type, analysis *)
(* context and CFG).  ck.stack lists the anonymous functions whose body is *)
(* being analysed, the innermost last: analyze_fn type-checks the body and *)
(* so resolves the temporaries of the body, anonymous functions included.  *)
(* ck.analysed counts the calls of analyze_fn and ck.visits the            *)
(* temporaries resolved, both per FnId.                                    *)
(***************************************************************************)
AnonFnIds == 1..MaxFns

\* faulty variant: the body is analysed while the slot is still Reserved
resolve_anonymous_fn_reserved(c, fn_id, generated) ==
    IF c.fns[fn_id] = "Reserved" /\ ~generated
    THEN [c EXCEPT !.visits[fn_id] = @ + 1, !.result = "Err"]
    ELSE [c EXCEPT !.visits[fn_id] = @ + 1,
                   !.stack = IF c.fns[fn_id] = "Reserved" THEN Append(@, fn_id) ELSE @,
                   !.analysed[fn_id] = IF c.fns[fn_id] = "Reserved" THEN @ + 1 ELSE @]

\* resolve_anonymous_fn up to the call of analyze_fn; generated is FALSE when
\* one of the three generators of a Reserved slot returns an error
resolve_anonymous_fn(c, fn_id, generated) ==
    IF c.fns[fn_id] = "Reserved"
    THEN IF generated
         THEN [c EXCEPT !.visits[fn_id] = @ + 1,
                        !.fns[fn_id] = "Resolved",
                        !.stack = Append(@, fn_id),
                        !.analysed[fn_id] = @ + 1]
         ELSE [c EXCEPT !.visits[fn_id] = @ + 1, !.result = "Err"]
    ELSE [c EXCEPT !.visits[fn_id] = @ + 1]

\* type_check of a function whose anonymous functions are all Reserved
InitAnon ==
    /\ pc = "type_check"
    /\ body = <<>> /\ fn_type = "Unit" /\ cfg = NoCFG
    /\ gen_result = "none" /\ trace_result = "none"
    /\ ast_expr = NoAst /\ expr = NoExpr
    /\ modules = <<>> /\ mr = Unused
    /\ op_in = Unused /\ op_out = Unused
    /\ fn_in = Unused
    /\ ck = [fns |-> [f \in AnonFnIds |-> "Reserved"], stack |-> <<>>,
             analysed |-> [f \in AnonFnIds |-> 0],
             visits |-> [f \in AnonFnIds |-> 0], result |-> ""]

\* resolve_tmp of a Value::AnonymousFn temporary of the body being checked
ResolveAnonymousFn ==
    /\ pc = "type_check"
    /\ \E fn_id \in AnonFnIds, generated \in BOOLEAN :
           /\ ck.visits[fn_id] < MaxVisits
           /\ ck' = resolve_anonymous_fn(ck, fn_id, generated)
    /\ pc' = IF ck'.result = "Err" THEN "failed" ELSE pc
    /\ UNCHANGED <<cfg_vars, flatten_vars, mod_vars, op_vars, fn_in>>

\* analyze_fn(universe, fn_id)? of the innermost body returns
AnalyzeFnReturn ==
    /\ pc = "type_check"
    /\ ck.stack # <<>>
    /\ \E ok \in BOOLEAN :
           /\ ck' = IF ok THEN [ck EXCEPT !.stack = SubSeq(@, 1, Len(@) - 1)]
                    ELSE [ck EXCEPT !.result = "Err"]
           /\ pc' = IF ok THEN pc ELSE "failed"
    /\ UNCHANGED <<cfg_vars, flatten_vars, mod_vars, op_vars, fn_in>>

\* the walk of the outermost function ends
TypeCheckReturn ==
    /\ pc = "type_check"
    /\ ck.stack = <<>>
    /\ ck' = [ck EXCEPT !.result = "Ok"]
    /\ pc' = "checked"
    /\ UNCHANGED <<cfg_vars, flatten_vars, mod_vars, op_vars, fn_in>>

NextAnon == ResolveAnonymousFn \/ AnalyzeFnReturn \/ TypeCheckReturn

SpecAnon == InitAnon /\ [][NextAnon]_vars

(***************************************************************************)
(* linear_cfg_traversal.rs and the Passenger of type_checker.rs.  The      *)
(* state w of a walk is the type checker: its scope stack (a scope is the  *)
(* set of the variables it binds), its typing context (the keys of         *)
(* tmp_type_map), the calls of visit_node and of resolve_expr so far, the  *)
(* node visit_node returns (None for Ok(None)) and "Panic" once a panic    *)
(* was raised.  An expression is named by its place: <<node, i>> for the   *)
(* i-th entry of a Block, <<node, 0>> for the expression of a Return, a    *)
(* Condition or a LoopHead; a local variable by the place of its           *)
(* declaration.  Every expression is taken to be well typed.               *)
(***************************************************************************)
\* CFG::next: the only out-neighbour of a node, None for the panic
next(g, id) ==
    IF Len(neighbors_out(g, id)) # 1 THEN None ELSE neighbors_out(g, id)[1]

\* CFG::after_loop_foot, None for a panic
after_loop_foot(g, id) ==
    Bind(neighbors_out(g, id), LAMBDA ns:
        IF node_weight(g, id).kind # "LoopFoot" \/ Len(ns) # 2 THEN None
        ELSE IF ~(node_weight(g, ns[1]).kind = "LoopHead"
                  /\ node_weight(g, ns[1]).id = node_weight(g, id).id) THEN ns[1]
        ELSE IF ~(node_weight(g, ns[2]).kind = "LoopHead"
                  /\ node_weight(g, ns[2]).id = node_weight(g, id).id) THEN ns[2]
        ELSE None)

\* CFG::after_return, after_continue and after_break: with two neighbours
\* the first that is not an End / a LoopHead / a LoopFoot, else the second;
\* with one neighbour that neighbour, but after_break runs into
\* unreachable!(); None for a panic
after_jump(g, id) ==
    Bind(neighbors_out(g, id), LAMBDA ns:
    Bind(CASE node_weight(g, id).kind = "Return" -> "End"
           [] node_weight(g, id).kind = "Continue" -> "LoopHead"
           [] node_weight(g, id).kind = "Break" -> "LoopFoot", LAMBDA skipped:
        IF Len(ns) = 2
        THEN IF node_weight(g, ns[1]).kind # skipped THEN ns[1] ELSE ns[2]
        ELSE IF Len(ns) = 1 /\ skipped # "LoopFoot" THEN ns[1]
        ELSE None))

\* CFG::after_condition: <<true_path, false_path>>, <<>> for a panic.  The
\* LoopHead of control_flow.rs carries the condition and the two edges
\* itself
after_condition(g, id) ==
    Bind({ i \in DOMAIN g.graph.edges : g.graph.edges[i][1] = id }, LAMBDA out:
        IF Cardinality(out) # 2
           \/ (\E i \in out : g.graph.edges[i][3] \notin {"True", "False"})
           \/ (\A i \in out : g.graph.edges[i][3] = "True")
           \/ (\A i \in out : g.graph.edges[i][3] = "False")
        THEN <<>>
        ELSE << g.graph.edges[CHOOSE i \in out : g.graph.edges[i][3] = "True"][2],
                g.graph.edges[CHOOSE i \in out : g.graph.edges[i][3] = "False"][2] >>)

\* resolve_expr at a place: the scope is self.scopes.last().expect(..), the
\* insertion into tmp_type_map panics on a key that is present
resolve_expr(w, place) ==
    IF w.scopes = <<>> THEN [w EXCEPT !.result = "Panic"]
    ELSE IF place \in w.typing_context THEN [w EXCEPT !.result = "Duplicate tmp ID"]
    ELSE [w EXCEPT !.typing_context = @ \cup {place},
                   !.resolved = Append(@, [place |-> place,
                                           scope |-> w.scopes[Len(w.scopes)]])]

RECURSIVE passenger_block(_, _, _, _)
\* the entries i.. of a Block: local_var_decl, assignment and expr; a
\* declaration is bound in the current scope once its initialiser is
\* resolved (current_scope.insert_var of FnAnalyzer::local_var_decl)
passenger_block(w, id, block, i) ==
    IF w.result # "" \/ i > Len(block) THEN w
    ELSE Bind(resolve_expr(w, <<id, i>>), LAMBDA r:
             passenger_block(IF r.result = "" /\ block[i] = "LocalVarDecl"
                             THEN [r EXCEPT !.scopes[Len(r.scopes)] = @ \cup {<<id, i>>}]
                             ELSE r,
                             id, block, i + 1))

\* faulty variant: exit_scope leaves the scope stack as it is
passenger_keeping_scope(w, g, id) ==
    Bind(node_weight(g, id), LAMBDA n:
        CASE n.kind = "EnterScope" ->
                 IF w.scopes = <<>> THEN [w EXCEPT !.result = "Panic"]
                 ELSE [w EXCEPT !.scopes = Append(@, @[Len(@)])]
          [] n.kind = "ExitScope" ->
                 IF w.scopes = <<>> THEN [w EXCEPT !.result = "Panic"] ELSE w
          [] n.kind = "Block" -> passenger_block(w, id, n.block, 1)
          [] n.kind \in {"Return", "Condition", "LoopHead"} /\ n.expr ->
                 resolve_expr(w, <<id, 0>>)
          [] OTHER -> w)

\* the method of the Passenger that visit_node calls for a node
passenger(w, g, id) ==
    Bind(node_weight(g, id), LAMBDA n:
        CASE n.kind = "EnterScope" ->
                 IF w.scopes = <<>> THEN [w EXCEPT !.result = "Panic"]
                 ELSE [w EXCEPT !.scopes = Append(@, @[Len(@)])]
          [] n.kind = "ExitScope" ->
                 IF w.scopes = <<>> THEN [w EXCEPT !.result = "Panic"]
                 ELSE [w EXCEPT !.scopes = SubSeq(@, 1, Len(@) - 1)]
          [] n.kind = "Block" -> passenger_block(w, id, n.block, 1)
          [] n.kind \in {"Return", "Condition", "LoopHead"} /\ n.expr ->
                 resolve_expr(w, <<id, 0>>)
          [] OTHER -> w)

RECURSIVE visit_node(_, _, _), visit_path(_, _, _, _, _)
\* "for _ in 0..self.node_count": visit_node from current_node on until a node
\* of kind stop is met (found), a visit returns Ok(None) or panics (ended),
\* or n visits are made
visit_path(g, w, current_node, stop, n) ==
    IF n = 0 THEN [w |-> w, found |-> None, ended |-> FALSE]
    ELSE IF node_weight(g, current_node).kind = stop
    THEN [w |-> w, found |-> current_node, ended |-> FALSE]
    ELSE Bind(visit_node(g, w, current_node), LAMBDA v:
             IF v.result # "" \/ v.next = None
             THEN [w |-> v, found |-> None, ended |-> TRUE]
             ELSE visit_path(g, v, v.next, stop, n - 1))

\* Traverser::visit_node.  A Block is visited as its entries are, one after
\* the other; a LoopHead is followed by the loop-condition arm at once,
\* since it carries the condition
visit_node(g, w0, current) ==
    Bind(node_weight(g, current).kind, LAMBDA kind:
    Bind(passenger([w0 EXCEPT !.visits = Append(@, current), !.next = None], g, current),
         LAMBDA w:
    Bind(IF w.result # "" THEN None
         ELSE CASE kind = "End" -> None
                [] kind \in {"LoopFoot"} -> after_loop_foot(g, current)
                [] kind \in {"Return", "Continue", "Break"} -> after_jump(g, current)
                [] kind \in {"Condition", "LoopHead"} -> None
                [] OTHER -> next(g, current), LAMBDA successor:
        IF w.result # "" \/ kind = "End" THEN w
        ELSE IF kind \notin {"Condition", "LoopHead"}
        THEN IF successor = None THEN [w EXCEPT !.result = "Panic"]
             ELSE [w EXCEPT !.next = successor]
        ELSE Bind(after_condition(g, current), LAMBDA paths:
             IF paths = <<>> THEN [w EXCEPT !.result = "Panic"]
             ELSE Bind(visit_path(g, w, paths[1],
                                  IF kind = "LoopHead" THEN "LoopFoot" ELSE "BranchMerge",
                                  node_count(g)), LAMBDA t:
                  IF t.ended THEN t.w
                  ELSE IF t.found = None THEN [t.w EXCEPT !.result = "Panic"]
                  ELSE IF kind = "LoopHead"
                  THEN IF after_loop_foot(g, paths[2]) = None
                       THEN [t.w EXCEPT !.result = "Panic"]
                       ELSE [t.w EXCEPT !.next = after_loop_foot(g, paths[2])]
                  ELSE Bind(visit_path(g, t.w, paths[2], "BranchMerge", node_count(g)),
                            LAMBDA f:
                       IF f.ended THEN f.w
                       ELSE IF f.found = None \/ next(g, f.found) = None
                       THEN [f.w EXCEPT !.result = "Panic"]
                       ELSE [f.w EXCEPT !.next = next(g, f.found)]))))))

\* Traverser::traverse: at most node_count visits from Start, a panic when
\* they did not end with Ok(None)
traverse(g, w) ==
    Bind(visit_path(g, w, g.start, "", node_count(g)), LAMBDA r:
        IF r.w.result # "" THEN r.w
        ELSE IF ~r.ended THEN [r.w EXCEPT !.result = "Panic"]
        ELSE [r.w EXCEPT !.result = "Ok"])

RECURSIVE Declared(_, _)
\* the block (blocks = FALSE) or the sequence of blocks (blocks = TRUE) x
\* with a LocalVarDecl in the place of every bare expression
Declared(x, blocks) ==
    IF x = <<>> THEN <<>>
    ELSE IF blocks THEN <<Declared(Head(x), FALSE)>> \o Declared(Tail(x), TRUE)
    ELSE << CASE Head(x).t = "Expr" -> LocalVarDeclS
              [] Head(x).t = "While" -> WhileS(Declared(Head(x).block, FALSE))
              [] Head(x).t = "If" -> IfS(Declared(Head(x).branches, TRUE),
                                         Declared(Head(x).default_block, TRUE))
              [] OTHER -> Head(x) >> \o Declared(Tail(x), FALSE)

\* a function whose analysis context has an empty tmp_type_map; its simple
\* statements are bare expressions or declarations
InitWalk ==
    /\ pc = "start"
    /\ body \in Bodies(MaxSize) \cup { Declared(b, FALSE) : b \in Bodies(MaxSize) }
    /\ fn_type \in FnTypes
    /\ cfg = NoCFG
    /\ gen_result = "none"
    /\ trace_result = "none"
    /\ ast_expr = NoAst
    /\ expr = NoExpr
    /\ modules = <<>> /\ mr = Unused
    /\ op_in = Unused /\ op_out = Unused
    /\ fn_in = [typing_context |-> {}]
    /\ ck = Unused

\* type_check(universe, fn_id): TypeChecker::new gives the checker a clone of
\* the typing context of the function and the function scope as its only
\* scope; the result of traverse is returned and the checker is dropped
TypeCheck ==
    /\ pc = "generated"
    /\ ck' = traverse(cfg, [scopes |-> << {} >>, typing_context |-> fn_in.typing_context,
                            visits |-> <<>>, resolved |-> <<>>, next |-> None,
                            result |-> ""])
    /\ fn_in' = fn_in
    /\ pc' = "checked"
    /\ UNCHANGED <<cfg_vars, flatten_vars, mod_vars, op_vars>>

NextWalk == Generate \/ TypeCheck

SpecWalk == InitWalk /\ [][NextWalk]_vars

(***************************************************************************)
(* Vocabulary of the properties: the generated graph as sets.              *)
(***************************************************************************)
Generated == pc = "generated"
NodeIds == 1..Len(cfg.graph.nodes)
EdgeIds == DOMAIN cfg.graph.edges
Kind(n) == cfg.graph.nodes[n].kind
Id(n) == cfg.graph.nodes[n].id
OfKind(k) == { n \in NodeIds : Kind(n) = k }
Source(i) == cfg.graph.edges[i][1]
Target(i) == cfg.graph.edges[i][2]
Label(i) == cfg.graph.edges[i][3]
OutEdges(n) == { i \in EdgeIds : Source(i) = n }
InEdges(n) == { i \in EdgeIds : Target(i) = n }
OutLabelled(n, l) == { i \in OutEdges(n) : Label(i) = l }
Forward == { <<Source(i), Target(i)>> : i \in EdgeIds }
Backward == { <<Target(i), Source(i)>> : i \in EdgeIds }

RECURSIVE Reach(_, _, _)
\* the nodes reached from S along the pairs of E, never continuing from a
\* node of blocked
Reach(E, S, blocked) ==
    IF { e[2] : e \in { x \in E : x[1] \in S \ blocked } } \subseteq S THEN S
    ELSE Reach(E, S \cup { e[2] : e \in { x \in E : x[1] \in S \ blocked } }, blocked)

(***************************************************************************)
(* Vocabulary of the properties: the source function.                      *)
(***************************************************************************)
RECURSIVE AllStmts(_), AllStmtsOf(_)
\* every statement of a block, nested ones included, in source order
AllStmts(block) ==
    IF block = <<>> THEN <<>>
    ELSE <<Head(block)>> \o AllStmts(Head(block).block)
         \o AllStmtsOf(Head(block).branches \o Head(block).default_block)
         \o AllStmts(Tail(block))
AllStmtsOf(blocks) ==
    IF blocks = <<>> THEN <<>> ELSE AllStmts(Head(blocks)) \o AllStmtsOf(Tail(blocks))

BodyStmts == AllStmts(body)
StmtsWhere(t) == { i \in DOMAIN BodyStmts : BodyStmts[i].t = t }

RECURSIVE Misplaced(_, _), MisplacedOf(_, _)
\* the break / continue statements of a block that are in no while body,
\* as the sequence of their kinds in source order
Misplaced(block, in_loop) ==
    IF block = <<>> THEN <<>>
    ELSE (CASE Head(block).t \in {"Break", "Continue"} ->
                   IF in_loop THEN <<>> ELSE <<Head(block).t>>
            [] Head(block).t = "While" -> Misplaced(Head(block).block, TRUE)
            [] Head(block).t = "If" ->
                   MisplacedOf(Head(block).branches \o Head(block).default_block, in_loop)
            [] OTHER -> <<>>)
         \o Misplaced(Tail(block), in_loop)
MisplacedOf(blocks, in_loop) ==
    IF blocks = <<>> THEN <<>>
    ELSE Misplaced(Head(blocks), in_loop) \o MisplacedOf(Tail(blocks), in_loop)

BodyMisplaced == Misplaced(body, FALSE)
IsMisplaced(t) == \E i \in DOMAIN BodyMisplaced : BodyMisplaced[i] = t

RECURSIVE EndsInReturn(_)
\* the block's last statement is a return, or an if with an else all of
\* whose branches end in return
EndsInReturn(block) ==
    /\ block # <<>>
    /\ \/ block[Len(block)].t = "Return"
       \/ /\ block[Len(block)].t = "If"
          /\ block[Len(block)].default_block # <<>>
          /\ \A i \in DOMAIN block[Len(block)].branches :
                 EndsInReturn(block[Len(block)].branches[i])
          /\ EndsInReturn(block[Len(block)].default_block[1])

(***************************************************************************)
(* C1: every generated CFG has exactly one Start and exactly one End,      *)
(* every node other than End is reachable from Start, and every node other *)
(* than Start has a directed path to End.                                  *)
(***************************************************************************)
C1_StartEndReachability ==
    Generated =>
        /\ Cardinality(OfKind("Start")) = 1
        /\ Cardinality(OfKind("End")) = 1
        /\ NodeIds \ {cfg.end} \subseteq Reach(Forward, {cfg.start}, {})
        /\ NodeIds \ {cfg.start} \subseteq Reach(Backward, {cfg.end}, {})

\* the smallest function showing it: fn f() { if c { } x; }
C1_TrailingBlockInput ==
    /\ Generated
    /\ body = <<IfS(<< <<>> >>, <<>>), ExprS>>
    /\ \E b \in OfKind("Block") : OutEdges(b) = {}
    /\ \E sp \in OfKind("BranchSplit") : InEdges(sp) = {}

(***************************************************************************)
(* C2: each BranchSplit(id) has exactly one BranchMerge with the same id,  *)
(* and every directed path leaving the split reaches that merge: whatever  *)
(* is reached from the split before the merge can still reach the merge.   *)
(***************************************************************************)
MergesOf(sp) == { m \in OfKind("BranchMerge") : Id(m) = Id(sp) }

C2_SplitReachesItsMerge ==
    Generated =>
        \A sp \in OfKind("BranchSplit") :
            /\ Cardinality(MergesOf(sp)) = 1
            /\ Reach(Forward, {sp}, MergesOf(sp)) \subseteq Reach(Backward, MergesOf(sp), {})

(***************************************************************************)
(* C3: each LoopHead(id) has exactly one LoopFoot with the same id, and    *)
(* exactly one BackEdge touches the loop, going from that foot to that     *)
(* head; nested loops and loops with an empty body included.               *)
(***************************************************************************)
FeetOf(h) == { f \in OfKind("LoopFoot") : Id(f) = Id(h) }
BackEdgesOf(h) ==
    { i \in EdgeIds : /\ Label(i) = "BackEdge"
                      /\ {Source(i), Target(i)} \cap ({h} \cup FeetOf(h)) # {} }

C3_LoopBackEdge ==
    Generated =>
        /\ \A h \in OfKind("LoopHead") :
               /\ Cardinality(FeetOf(h)) = 1
               /\ Cardinality({ x \in OfKind("LoopHead") : Id(x) = Id(h) }) = 1
               /\ Cardinality(BackEdgesOf(h)) = 1
               /\ \A i \in BackEdgesOf(h) : Source(i) \in FeetOf(h) /\ Target(i) = h
        /\ \A i \in EdgeIds : Label(i) = "BackEdge" => Kind(Target(i)) = "LoopHead"
        /\ Cardinality(OfKind("LoopHead")) = Cardinality(StmtsWhere("While"))

\* a loop with an empty body nested in a loop, followed by a third loop
C3_NestedLoops ==
    /\ Generated
    /\ body = <<WhileS(<<WhileS(<<>>)>>), WhileS(<<>>)>>
    /\ Cardinality(OfKind("LoopHead")) = 3
    /\ Cardinality({ i \in EdgeIds : Label(i) = "BackEdge" }) = 3

(***************************************************************************)
(* C4: when the return trace succeeds for a function whose declared return *)
(* type is not unit, every directed path from Start to End visits a Return *)
(* node: End is not reached from Start once the paths stop at Returns.     *)
(***************************************************************************)
C4_TracedPathsMeetReturn ==
    (pc = "traced" /\ trace_result = "Ok" /\ fn_type # "Unit") =>
        cfg.end \notin Reach(Forward, {cfg.start}, OfKind("Return"))

\* an accepted non-unit function whose End is reached from Start through
\* the two branches of an if
C4_AcceptedBranching ==
    /\ pc = "traced" /\ trace_result = "Ok" /\ fn_type # "Unit"
    /\ OfKind("BranchMerge") # {}
    /\ cfg.end \in Reach(Forward, {cfg.start}, {})
    /\ Cardinality(OfKind("Return")) >= 2

(***************************************************************************)
(* C5 as stated: MissingReturn is reported for a non-unit function only if *)
(* some backward path from End reaches Start without meeting a Return.     *)
(***************************************************************************)
C5_MissingOnlyIfReturnFreePath ==
    (pc = "traced" /\ trace_result = "MissingReturn" /\ fn_type # "Unit") =>
        cfg.start \in Reach(Backward, {cfg.end}, OfKind("Return"))

\* the final ExitScope and the node the trace starts from
FinalExit == Source(CHOOSE i \in EdgeIds : Target(i) = cfg.end)
TraceStart == Source(CHOOSE i \in EdgeIds : Target(i) = FinalExit)
\* the nodes the trace looks through, and all it can visit from TraceStart
Transparent == OfKind("BranchMerge") \cup OfKind("ExitScope")
Traceable == Reach(Backward, {TraceStart}, NodeIds \ Transparent)

(***************************************************************************)
(* C5, amended: the return trace never panics, and it reports              *)
(* MissingReturn exactly when the backward walk from the node before the   *)
(* final ExitScope, which continues through every predecessor of a         *)
(* BranchMerge and the sole predecessor of an ExitScope and stops at a     *)
(* Return, visits a node of any other kind; a function that ends in a      *)
(* return, or in an if/elif/else whose branches all end in return, is      *)
(* accepted.                                                               *)
(***************************************************************************)
C5_MissingIffTraceMeetsOtherNode ==
    pc = "traced" =>
        /\ trace_result \in {"Ok", "MissingReturn"}
        /\ trace_result = "MissingReturn" <=>
               Traceable \ (Transparent \cup OfKind("Return")) # {}
        /\ \A n \in Traceable \cap OfKind("ExitScope") : Cardinality(InEdges(n)) = 1
        /\ EndsInReturn(body) => trace_result = "Ok"

\* a return followed by a loop: rejected although every backward path from
\* End meets the Return
C5_RejectedBehindReturn ==
    /\ pc = "traced" /\ trace_result = "MissingReturn" /\ fn_type # "Unit"
    /\ body = <<ReturnS(TRUE), WhileS(<<>>)>>
    /\ cfg.start \notin Reach(Backward, {cfg.end}, OfKind("Return"))

(***************************************************************************)
(* C6: the only successor of Start is an EnterScope, the only predecessor  *)
(* of End is an ExitScope, and a Return without an expression is inserted  *)
(* between the end of the body and that ExitScope iff the declared return  *)
(* type is unit.                                                           *)
(***************************************************************************)
Inserted == { n \in OfKind("Return") : cfg.graph.nodes[n].span = "dummy" }

SplitOf(n) == { Source(i) : i \in { j \in InEdges(n) : Kind(Source(j)) = "BranchSplit" } }
FalseTo(k) ==
    { n \in OfKind("Condition") : \E i \in OutLabelled(n, "False") : Kind(Target(i)) = k }
Ifs == StmtsWhere("If")

C7_ConditionEdges ==
    Generated =>
        /\ \A n \in OfKind("Condition") :
               /\ Cardinality(OutEdges(n)) = 2
               /\ Cardinality(OutLabelled(n, "True")) = 1
               /\ Cardinality(OutLabelled(n, "False")) = 1
               /\ \A i \in OutLabelled(n, "True") :
                      /\ Kind(Target(i)) = "EnterScope"
                      /\ InEdges(Target(i)) = {i}
               /\ Cardinality(SplitOf(n)) = 1
               /\ \A i \in OutLabelled(n, "False") :
                      /\ Kind(Target(i)) \in {"BranchSplit", "EnterScope", "BranchMerge"}
                      /\ Kind(Target(i)) = "BranchMerge" =>
                             \A sp \in SplitOf(n) : Id(Target(i)) = Id(sp)
                      /\ Kind(Target(i)) = "EnterScope" => InEdges(Target(i)) = {i}
        /\ Cardinality(FalseTo("BranchSplit")) + Cardinality(Ifs) = Cardinality(OfKind("Condition"))
        /\ Cardinality(FalseTo("EnterScope")) =
               Cardinality({ i \in Ifs : BodyStmts[i].default_block # <<>> })
        /\ Cardinality(FalseTo("BranchMerge")) =
               Cardinality({ i \in Ifs : BodyStmts[i].default_block = <<>> })

\* an if/elif/else next to an if without else: the three False targets
C7_AllFalseTargets ==
    /\ Generated
    /\ FalseTo("BranchSplit") # {}
    /\ FalseTo("EnterScope") # {}
    /\ FalseTo("BranchMerge") # {}

(***************************************************************************)
(* C8 as stated: each loop condition has exactly one True and one False    *)
(* edge; the False edge leads to the LoopFoot of the same loop, and the    *)
(* True edge enters an EnterScope ... ExitScope pair whose exit leads to   *)
(* that LoopFoot.                                                          *)
(***************************************************************************)
LoopEdges(h) ==
    /\ Cardinality(OutLabelled(h, "True")) = 1
    /\ Cardinality(OutLabelled(h, "False")) = 1
    /\ \A i \in OutLabelled(h, "False") : Target(i) \in FeetOf(h)

ScopedBody(h) ==
    \A i \in OutLabelled(h, "True") :
        /\ Kind(Target(i)) = "EnterScope"
        /\ InEdges(Target(i)) = {i}
        /\ \E f \in FeetOf(h) : \E j \in InEdges(f) :
               /\ Kind(Source(j)) = "ExitScope"
               /\ Label(j) = "Normal"
               /\ OutEdges(Source(j)) = {j}
               /\ Source(j) = Target(i) + 1

EmptyBody(h) == \A i \in OutLabelled(h, "True") : Target(i) \in FeetOf(h)

C9_BadJumpExactly ==
    pc # "start" =>
        /\ gen_result = "BadBreak" <=> IsMisplaced("Break")
        /\ gen_result = "BadContinue" <=> IsMisplaced("Continue")

(***************************************************************************)
(* C9, amended: generation fails exactly when some break or continue       *)
(* statement is in no while body, at whatever depth of if/else nesting,    *)
(* and the error is BadBreak or BadContinue after the first such statement *)
(* in source order; a break or continue inside if/else branches within a   *)
(* while body is accepted.                                                 *)
(***************************************************************************)
C9_FirstBadJump ==
    pc # "start" =>
        gen_result = IF BodyMisplaced = <<>> THEN "Ok"
                     ELSE IF BodyMisplaced[1] = "Break" THEN "BadBreak" ELSE "BadContinue"

\* a continue before a break, both outside any loop
C9_ContinueBeforeBreak ==
    /\ pc = "failed" /\ gen_result = "BadContinue"
    /\ IsMisplaced("Break")
    /\ body = <<IfS(<< <<ContinueS>> >>, <<>>), BreakS>>

(***************************************************************************)
(* Vocabulary of the properties: the flattened expression.                 *)
(***************************************************************************)
Tmps == DOMAIN expr.map
Order == expr.execution_order
Pos(id) == CHOOSE i \in DOMAIN Order : Order[i] = id
Operands(id) == expr.map[id].operands
\* the TmpIds a temporary references: its call target and its operands
Refs(id) ==
    { Operands(id)[i] : i \in DOMAIN Operands(id) }
    \cup (IF expr.map[id].fn_val # None THEN {expr.map[id].fn_val} ELSE {})

RECURSIVE TmpCount(_), TmpCountOf(_)
\* the temporaries a source expression stands for: one per node, and one
\* more for the target of each call
TmpCount(e) ==
    (CASE e.t = "FnCall" -> 2 [] e.t = "FnCallChain" -> 0 [] OTHER -> 1) + TmpCountOf(e.subs)
TmpCountOf(es) == IF es = <<>> THEN 0 ELSE TmpCount(Head(es)) + TmpCountOf(Tail(es))

(***************************************************************************)
(* C10: the execution order of a flattened expression lists every          *)
(* temporary of its map exactly once; every temporary appears strictly     *)
(* after its call target and its operands; and the operands of a           *)
(* temporary appear in their source order, the first argument inserted     *)
(* into a piped call included.                                             *)
(***************************************************************************)
C10_ExecutionOrderTopological ==
    pc = "flattened" =>
        /\ expr.err = ""
        /\ { Order[i] : i \in DOMAIN Order } = Tmps
        /\ Len(Order) = Cardinality(Tmps)
        /\ Cardinality(Tmps) = TmpCount(ast_expr)
        /\ \A id \in Tmps : \A r \in Refs(id) : r \in Tmps /\ Pos(r) < Pos(id)
        /\ \A id \in Tmps : \A i, j \in DOMAIN Operands(id) :
               i < j => Pos(Operands(id)[i]) < Pos(Operands(id)[j])
        /\ expr.result = Order[Len(Order)]

\* a piped call whose stage has an argument of its own: the call of the
\* stage takes the result of the base call, then its own argument
C10_PipedCall ==
    /\ pc = "flattened"
    /\ ast_expr.t = "FnCallChain"
    /\ \E id \in Tmps :
           /\ expr.map[id].kind = "FnCall"
           /\ Len(Operands(id)) = 2
           /\ expr.map[Operands(id)[1]].kind = "FnCall"
           /\ Pos(Operands(id)[1]) < Pos(expr.map[id].fn_val)

(***************************************************************************)
(* Vocabulary of C11: where the temporaries of a source expression lie.    *)
(* TmpIds are handed out in flattening order, so a subexpression that      *)
(* starts after off temporaries owns the ids off+1 .. off+TmpCount, and    *)
(* its own temporary is the last of them.                                  *)
(***************************************************************************)
\* the temporaries of the first k expressions of es
TmpsBefore(es, k) == TmpCountOf(SubSeq(es, 1, k))
\* the temporary of the k-th written argument of a call that starts after off
WrittenArg(call, off, k) == off + 1 + TmpsBefore(call.subs, k)
\* the call temporary of the k-th stage of a chain that starts after off
StageCall(chain, off, k) == off + TmpsBefore(chain.subs, k)

\* stage k >= 2 of the chain takes the call of stage k-1, then its own
\* written arguments in their order
StagePiped(chain, off, k) ==
    LET call == StageCall(chain, off, k)
        stage == chain.subs[k]
    IN  /\ call \in Tmps
        /\ expr.map[call].kind = "FnCall"
        /\ expr.map[call].has_args
        /\ expr.map[call].fn_val = StageCall(chain, off, k - 1) + 1
        /\ Operands(call) =
               <<StageCall(chain, off, k - 1)>> \o
               [i \in 1..Len(stage.subs) |-> WrittenArg(stage, StageCall(chain, off, k - 1), i)]

RECURSIVE ChainsPiped(_, _), ChainsPipedIn(_, _, _)
\* every chain inside e, e starting after off temporaries, is piped
ChainsPiped(e, off) ==
    /\ e.t = "FnCallChain" =>
           /\ \A k \in 2..Len(e.subs) : StagePiped(e, off, k)
           /\ expr.map[StageCall(e, off, 1)].kind = "FnCall"
    /\ ChainsPipedIn(e.subs, IF e.t = "FnCall" THEN off + 1 ELSE off, 1)
ChainsPipedIn(es, off, k) ==
    k <= Len(es) =>
        /\ ChainsPiped(es[k], off)
        /\ ChainsPipedIn(es, off + TmpCount(es[k]), k + 1)

(***************************************************************************)
(* C11: in a call chain s0 |> s1 |> ... |> sn every stage sk, k >= 1, is   *)
(* flattened to a FnCall whose arguments are the result temporary of stage *)
(* k-1 followed by the stage's own written arguments in their original     *)
(* order, and the value of the chain is the call temporary of the last     *)
(* stage.                                                                  *)
(***************************************************************************)
C11_ChainStagesPiped ==
    pc = "flattened" =>
        /\ ChainsPiped(ast_expr, 0)
        /\ ast_expr.t = "FnCallChain" =>
               expr.result = StageCall(ast_expr, 0, Len(ast_expr.subs))

\* base() |> stage(x): the stage's call takes the base call, then x
C11_StageWithWrittenArg ==
    /\ pc = "flattened"
    /\ ast_expr.t = "FnCallChain"
    /\ Len(ast_expr.subs) = 2
    /\ Len(ast_expr.subs[2].subs) = 1
    /\ Operands(expr.result) = <<2, 4>>

(***************************************************************************)
(* Vocabulary of the properties: the analysis log of check_modules.        *)
(***************************************************************************)
PhaseEntry(f, phase, result) == [fn_id |-> f, phase |-> phase, result |-> result]

\* the log entry i is where the code allows a phase to run
InPhaseOrder(i) ==
    CASE mr.log[i].phase = "resolve_scope" ->
             \/ i = 1
             \/ /\ mr.log[i - 1].phase = "return_trace"
                /\ mr.log[i - 1].result = "Ok"
                /\ mr.log[i - 1].fn_id # mr.log[i].fn_id
      [] mr.log[i].phase = "type_check" ->
             /\ i > 1
             /\ mr.log[i - 1] = PhaseEntry(mr.log[i].fn_id, "resolve_scope", "Ok")
      [] mr.log[i].phase = "return_trace" ->
             /\ i > 1
             /\ mr.log[i - 1] = PhaseEntry(mr.log[i].fn_id, "type_check", "Ok")

ReservedStructs == Union({ { mr.raw_data[id].reserved_structs[n] :
                                 n \in DOMAIN mr.raw_data[id].reserved_structs } :
                           id \in DOMAIN mr.raw_data })
ReservedFns == Union({ { mr.raw_data[id].reserved_fns[n] :
                             n \in DOMAIN mr.raw_data[id].reserved_fns } :
                       id \in DOMAIN mr.raw_data })

\* every struct and every function declared in the input has a TypeId (and
\* FnId) reserved in its module, no two declarations sharing one
AllIdsReserved ==
    /\ DOMAIN mr.raw_data = DOMAIN modules
    /\ \A i \in DOMAIN modules : \A k \in DOMAIN modules[i].decls :
           CASE modules[i].decls[k].k = "Struct" ->
                    modules[i].decls[k].name \in DOMAIN mr.raw_data[i].reserved_structs
             [] modules[i].decls[k].k = "Function" ->
                    modules[i].decls[k].name \in DOMAIN mr.raw_data[i].reserved_fns
             [] OTHER -> TRUE
    /\ \A r1, r2 \in ReservedStructs \cup ReservedFns : r1.type_id = r2.type_id => r1 = r2
    /\ \A r1, r2 \in ReservedFns : r1.fn_id = r2.fn_id => r1 = r2

StructTypesRegistered ==
    \A r \in ReservedStructs :
        /\ r.type_id \in mr.registered
        /\ r.type_id \in DOMAIN mr.universe.types
        /\ mr.universe.types[r.type_id].kind = "Struct"

FnTypesRegistered ==
    \A r \in ReservedFns :
        /\ r.type_id \in mr.registered
        /\ r.fn_id \in DOMAIN mr.universe.fns
        /\ mr.universe.fns[r.fn_id].type_id = r.type_id

\* C13 as stated: once the CFG of some function is built, the IDs and the
\* type constructors of all structs and of all functions are registered
C13_AllRegisteredBeforeAnyCfg ==
    mr.built # {} => (AllIdsReserved /\ StructTypesRegistered /\ FnTypesRegistered)

\* C13, amended: once the CFG of some function is built, all IDs are
\* reserved and the type constructors of all structs are registered; once
\* the analysis of some function has begun, the type constructor and the CFG
\* of every function are registered as well
C13_StructsBeforeCfgsFnsBeforeAnalysis ==
    /\ mr.built # {} => (AllIdsReserved /\ StructTypesRegistered)
    /\ (mr.log # <<>> \/ pc \in {"resolve_scope", "map_modules", "checked"}) =>
           /\ AllIdsReserved /\ StructTypesRegistered /\ FnTypesRegistered
           /\ mr.built = { r.fn_id : r \in ReservedFns }

\* f calls g, declared after it; f is analysed first and the program is
\* accepted
C13_CallOfLaterFunctionAccepted ==
    /\ pc = "checked"
    /\ mr.result = "Ok"
    /\ Len(modules) = 1
    /\ modules[1].decls = <<Decl("Function", "f", <<"g">>), Decl("Function", "g", NoPath)>>
    /\ mr.log[1].fn_id = mr.raw_data[1].reserved_fns["f"].fn_id

(***************************************************************************)
(* Vocabulary of the properties: the imports of the input.                 *)
(***************************************************************************)
UsesOf(i) == { k \in DOMAIN modules[i].decls : modules[i].decls[k].k = "Use" }

\* every module has a name and every use names a module of the input
ImportsResolvable ==
    /\ \A i \in DOMAIN modules : modules[i].name # ""
    /\ \A i \in DOMAIN modules : \A k \in UsesOf(i) :
           \E j \in DOMAIN modules : modules[j].name = modules[i].decls[k].name

\* some module imports the same module twice, so that the paths of the
\* second import are bound already
ImportsTwice ==
    \E i \in DOMAIN modules : \E k1, k2 \in UsesOf(i) :
        k1 < k2 /\ modules[i].decls[k1].name = modules[i].decls[k2].name

\* the errors check_modules returns as Err
ReportedErrors ==
    {"MissingModName", "UnresolvedUses", "UnknownType", "CyclicType", "UnknownFn", "TypeError",
     "MissingReturn", "BadBreak", "BadContinue", "DuplicateTypes", "DuplicateFns"}

\* C20: once the imports of a program that imports a module twice have
\* been resolved, the analysis has failed with a reported error
C20_DuplicateImportIsReportedError ==
    (pc \notin {"check_modules", "map_reserved"} /\ ImportsResolvable /\ ImportsTwice) =>
        (pc = "failed" /\ mr.result \in ReportedErrors)

(***************************************************************************)
(* Vocabulary of the properties: operators, calls and type applications.   *)
(***************************************************************************)
OrderingOps == {"GreaterEq", "LesserEq", "Greater", "Lesser"}

\* the argument types of the call, none written counting as no argument
CallArgs == IF op_in.args = <<>> THEN <<>> ELSE op_in.args[1]

RECURSIVE Unfold(_, _)
\* a type application with every TypeId replaced by the constructor it names
Unfold(universe, app) ==
    IF app.k = "Param" THEN <<"Param", app.param>>
    ELSE <<universe.type_cons[app.type_cons].k,
           universe.type_cons[app.type_cons].type_id,
           universe.type_cons[app.type_cons].type_params,
           [i \in DOMAIN universe.type_cons[app.type_cons].parts |->
                Unfold(universe, universe.type_cons[app.type_cons].parts[i])],
           IF app.args = <<>> THEN <<>>
           ELSE <<[i \in DOMAIN app.args[1] |-> Unfold(universe, app.args[1][i])]>> >>

\* C16: a type application without type parameters that has been applied
\* successfully is applied successfully once more, and the two results
\* name equal types once the fresh TypeIds are looked through
C16_SubstituteIdempotent ==
    (pc = "applied_twice" /\ op_in.kind = "apply") =>
        /\ op_out.err = ""
        /\ Unfold(op_out.universe, op_out.result) = Unfold(op_out.universe, op_out.first)

\* C17: an ordering operator applied to (Int, Int) or (Float, Float) has
\* the type Bool, and applied to any other pair of types it is a BinOp error
C17_OrderingYieldsBool ==
    (pc = "resolved" /\ op_in.kind = "bin_op" /\ op_in.op \in OrderingOps) =>
        IF op_in.lhs = op_in.rhs /\ op_in.lhs \in {"Int", "Float"}
        THEN op_out = [type |-> "Bool", err |-> ""]
        ELSE op_out.err = "BinOp"

\* C18: a call of a function with a checked parameter list has the return
\* type of the function if it has as many arguments as the function has
\* parameters and each argument has the type of its parameter; it is an
\* Arity error if the numbers differ and an ArgMismatch error otherwise
C18_CallChecksArityAndArguments ==
    (pc = "resolved" /\ op_in.kind = "fn_call" /\ op_in.fn_value_type.k = "Function") =>
        IF Len(CallArgs) # Len(op_in.fn_value_type.parameters)
        THEN op_out.err = "Arity"
        ELSE IF \E i \in DOMAIN CallArgs : CallArgs[i] # op_in.fn_value_type.parameters[i]
        THEN op_out.err = "ArgMismatch"
        ELSE op_out = [type |-> op_in.fn_value_type.return_type, err |-> ""]

(***************************************************************************)
(* C14: while the body of an anonymous function is analysed its slot is    *)
(* already Resolved, a Resolved slot never becomes Reserved again, and no  *)
(* body is analysed more than once, however often a temporary that refers  *)
(* to the function is resolved.                                            *)
(***************************************************************************)
C14_ResolvedBeforeAnalysisOnce ==
    /\ [](\A f \in AnonFnIds :
              /\ ck.analysed[f] <= 1
              /\ (ck.analysed[f] > 0 => ck.fns[f] = "Resolved")
              /\ \A i \in DOMAIN ck.stack : ck.fns[ck.stack[i]] = "Resolved")
    /\ [][\A f \in AnonFnIds : ck.fns[f] = "Resolved" => ck'.fns[f] = "Resolved"]_vars

\* a temporary refers to a function whose body is being analysed, and the
\* body has still been analysed once only
C14_ResolvedAgainDuringAnalysis ==
    \E i \in DOMAIN ck.stack :
        ck.visits[ck.stack[i]] > 1 /\ ck.analysed[ck.stack[i]] = 1

(***************************************************************************)
(* Vocabulary of the walk: the expressions of the generated graph by       *)
(* place, and the simple statements of the body in source order.           *)
(***************************************************************************)
ExprPlaces ==
    UNION { { <<n, i>> : i \in DOMAIN cfg.graph.nodes[n].block }
            \cup (IF cfg.graph.nodes[n].expr THEN { <<n, 0>> } ELSE {}) : n \in NodeIds }

RECURSIVE BlockPlaces(_)
\* the places of the Block entries of the nodes 1..n, in the order of the nodes
BlockPlaces(n) ==
    IF n = 0 THEN <<>>
    ELSE BlockPlaces(n - 1)
         \o [i \in 1..Len(cfg.graph.nodes[n].block) |-> <<n, i>>]

RECURSIVE LexPaths(_, _, _), LexBranches(_, _, _, _)
\* the statements i.. of a block and of the blocks nested in them, in source
\* order, each with the chain of nested blocks it lies in: <<i, 0>> is the
\* body of the loop at statement i, <<i, j>> the j-th branch of the if at
\* statement i
LexPaths(block, i, path) ==
    IF i > Len(block) THEN <<>>
    ELSE << [t |-> block[i].t, path |-> path] >>
         \o (CASE block[i].t = "While" ->
                      LexPaths(block[i].block, 1, Append(path, <<i, 0>>))
                [] block[i].t = "If" ->
                      LexBranches(block[i].branches \o block[i].default_block, 1, i, path)
                [] OTHER -> <<>>)
         \o LexPaths(block, i + 1, path)

LexBranches(branches, j, i, path) ==
    IF j > Len(branches) THEN <<>>
    ELSE LexPaths(branches[j], 1, Append(path, <<i, j>>))
         \o LexBranches(branches, j + 1, i, path)

SimpleKinds == {"Expr", "Assignment", "LocalVarDecl"}

\* the place of the x-th statement of the sequence lex, a simple statement
PlaceOf(lex, x) ==
    BlockPlaces(Len(cfg.graph.nodes))[Cardinality({ z \in 1..x : lex[z].t \in SimpleKinds })]

IsPrefix(p, q) == Len(p) <= Len(q) /\ SubSeq(q, 1, Len(p)) = p

\* the scopes in which the expression at a place was resolved
ScopesAt(place) ==
    { ck.resolved[x].scope : x \in { y \in DOMAIN ck.resolved : ck.resolved[y].place = place } }

(***************************************************************************)
(* C15: after a successful type check the typing context of the function   *)
(* holds an entry for every temporary of every expression of its CFG, and  *)
(* the walk never inserts a temporary that is already there.               *)
(***************************************************************************)
C15_EveryTmpOnceInFnContext ==
    pc = "checked" =>
        /\ ck.result # "Duplicate tmp ID"
        /\ ck.result = "Ok" => ExprPlaces \subseteq fn_in.typing_context

(***************************************************************************)
(* C19: a variable declared in a nested block is not in scope at a later   *)
(* statement of an enclosing block, and a variable declared in a block is  *)
(* in scope at every later statement of that block and of the blocks       *)
(* nested in it.                                                           *)
(***************************************************************************)
C19_NestedHiddenOuterVisible ==
    pc = "checked" =>
        LET lex == LexPaths(body, 1, <<>>) IN
        \A x, y \in DOMAIN lex :
            (x < y /\ lex[x].t = "LocalVarDecl" /\ lex[y].t \in SimpleKinds) =>
                /\ (IsPrefix(lex[y].path, lex[x].path) /\ lex[x].path # lex[y].path) =>
                       \A scope \in ScopesAt(PlaceOf(lex, y)) : PlaceOf(lex, x) \notin scope
                /\ (\/ IsPrefix(lex[x].path, lex[y].path) /\ lex[x].path # lex[y].path
                    \/ /\ lex[x].path = lex[y].path
                       /\ \E z \in DOMAIN lex :
                              /\ x < z /\ z < y
                              /\ lex[z].t \in {"While", "If"}
                              /\ lex[z].path = lex[x].path) =>
                       \A scope \in ScopesAt(PlaceOf(lex, y)) : PlaceOf(lex, x) \in scope

\* the struct types of the fields of a struct of the universe
FieldStructs(universe, id) ==
    { universe.types[id].fields[i] : i \in DOMAIN universe.types[id].fields }

RECURSIVE ReachableStructs(_, _, _)
\* the structs reached from the structs of frontier through chains of
\* struct-typed fields of at least one field
ReachableStructs(universe, frontier, seen) ==
    IF Union({ FieldStructs(universe, id) : id \in frontier }) \subseteq seen THEN seen
    ELSE ReachableStructs(universe, Union({ FieldStructs(universe, id) : id \in frontier }) \ seen,
                          seen \cup Union({ FieldStructs(universe, id) : id \in frontier }))

\* some struct of the universe reaches itself
HasCycle(universe) ==
    \E id \in DOMAIN universe.types : id \in ReachableStructs(universe, {id}, {})

\* C21: the check of the struct roots fails with CyclicType exactly when some
\* struct reaches itself through a chain of struct-typed fields, whatever
\* the order the field types of a struct are visited in
C21_CyclicTypeExactlyOnCycles ==
    (pc = "resolved" /\ op_in.kind = "cyclic")
        => (op_out.result = "CyclicType" <=> HasCycle(op_in.universe))

\* the names of the fields a struct body declares
FieldNames(struct_body) == { struct_body[i].name : i \in DOMAIN struct_body }

\* C22: in every struct type built from a struct declaration, field_map maps
\* the declared field names one to one onto the keys of fields, one FieldId
\* per declared field; a body with two fields of one name builds nothing
C22_FieldMapMatchesFields ==
    (pc = "resolved" /\ op_in.kind = "struct")
        => /\ op_out.err = ""
                  => /\ DOMAIN op_out.field_map = FieldNames(op_in.body)
                     /\ { op_out.field_map[n] : n \in DOMAIN op_out.field_map } = DOMAIN op_out.fields
                     /\ \A n1, n2 \in DOMAIN op_out.field_map :
                            op_out.field_map[n1] = op_out.field_map[n2] => n1 = n2
                     /\ Cardinality(DOMAIN op_out.fields) = Len(op_in.body)
           /\ Cardinality(FieldNames(op_in.body)) < Len(op_in.body) => op_out.err # ""

\* module m declares two items of kind k with one name
DeclaresTwice(m, k) ==
    \E i, j \in DOMAIN m.decls :
        i < j /\ m.decls[i].k = k /\ m.decls[j].k = k /\ m.decls[i].name = m.decls[j].name

\* C30: once the declarations of a program of named modules are reserved,
\* resolution has failed with DuplicateTypes if a module declares two structs
\* of one name, and with DuplicateFns if a module declares two functions of
\* one name
C30_DuplicateDeclarationsRejected ==
    (pc # "check_modules" /\ \A i \in DOMAIN modules : modules[i].name # "")
        => /\ (\E i \in DOMAIN modules : DeclaresTwice(modules[i], "Struct"))
                  => \/ mr.result = "DuplicateTypes"
                     \/ /\ mr.result = "DuplicateFns"
                        /\ \E i \in DOMAIN modules : DeclaresTwice(modules[i], "Function")
           /\ (\E i \in DOMAIN modules : DeclaresTwice(modules[i], "Function"))
                  => \/ mr.result = "DuplicateFns"
                     \/ /\ mr.result = "DuplicateTypes"
                        /\ \E i \in DOMAIN modules : DeclaresTwice(modules[i], "Struct")

\* the paths bound in the scopes of a raw program, module by module
ScopePaths(raw_prog) ==
    [id \in DOMAIN raw_prog.scopes |->
         [types |-> DOMAIN raw_prog.scopes[id].types, fns |-> DOMAIN raw_prog.scopes[id].fns]]

\* C23: after import resolution the paths bound in the scope of each module
\* are those that import resolution binds when it iterates the modules in
\* any other order and succeeds
C23_ScopePathsIndependentOfOrder ==
    pc \notin {"check_modules", "map_reserved", "failed"}
        => \A order \in Perms(DOMAIN mr.raw_data) :
               \A r \in {map_usings(mr.raw_data, RawProgram(mr.raw_data, order), order)} :
                   r.err = "" => ScopePaths(r) = ScopePaths(mr.raw_program)

\* C26: the linear traversal of the CFG of every body the builder accepts
\* returns Ok without a panic, has visited no node twice and has visited
\* End last
C26_TraversalVisitsOnceAndEnds ==
    (pc = "checked" /\ gen_result = "Ok")
        => /\ ck.result = "Ok"
           /\ \A i, j \in DOMAIN ck.visits : ck.visits[i] = ck.visits[j] => i = j
           /\ Len(ck.visits) <= node_count(cfg)
           /\ ck.visits # <<>> /\ ck.visits[Len(ck.visits)] = cfg.end

\* the nodes of kind k among the first n nodes the walk has visited
VisitedOfKind(k, n) ==
    { i \in 1..n : node_weight(cfg, ck.visits[i]).kind = k }

\* C27: in the walk of the type checker over the CFG of every body the
\* builder accepts, the ExitScope nodes visited never outnumber the
\* EnterScope nodes visited before them, the scope stack is not empty when
\* the walk stops, and it has its initial depth of one scope when the walk
\* has reached End
C27_ScopeStackBalanced ==
    (pc = "checked" /\ gen_result = "Ok")
        => /\ \A n \in 0..Len(ck.visits) :
                  Cardinality(VisitedOfKind("ExitScope", n))
                      <= Cardinality(VisitedOfKind("EnterScope", n))
           /\ Len(ck.scopes)
                  = 1 + Cardinality(VisitedOfKind("EnterScope", Len(ck.visits)))
                      - Cardinality(VisitedOfKind("ExitScope", Len(ck.visits)))
           /\ ck.result = "Ok" => Len(ck.scopes) = 1

\* a walk that has reached End through a return in a nested scope
C27_ReturnInNestedScopeWalked ==
    /\ pc = "checked" /\ gen_result = "Ok" /\ ck.result = "Ok"
    /\ Cardinality(VisitedOfKind("EnterScope", Len(ck.visits))) >= 2
    /\ VisitedOfKind("Return", Len(ck.visits)) # {}
    /\ VisitedOfKind("LoopHead", Len(ck.visits)) # {}

\* C28: the application of a type application has returned, with a result
\* or with an error, whatever the constructor and the arguments are
C28_ApplyTerminates ==
    (op_in.kind = "apply" /\ pc # "start") => op_out.err # "StackOverflow"

\* C29: the local type parameters of a function-type annotation that is
\* accepted have TypeParamIds of their own: the parameter list of the
\* constructor repeats no ID and two names are not bound to one ID
C29_LocalTypeParamsDistinct ==
    (pc = "resolved" /\ op_in.kind = "fn_type" /\ op_out.err = "")
        => /\ \A i, j \in DOMAIN op_out.type_params :
                  op_out.type_params[i] = op_out.type_params[j] => i = j
           /\ \A i, j \in DOMAIN op_in.local_type_params :
                  op_in.local_type_params[i] # op_in.local_type_params[j]
                      => op_out.new_scope.type_params[op_in.local_type_params[i]]
                             # op_out.new_scope.type_params[op_in.local_type_params[j]]

\* the names a struct initialisation gives an initialiser to
InitNames(init) == { init[i].name : i \in DOMAIN init }

\* C24: the initialisation of a struct that is annotated opaque is rejected
\* with InitOpaqueType
C24_OpaqueInitRejected ==
    (pc = "resolved" /\ op_in.kind = "struct_init" /\ op_in.opaque)
        => op_out.err = "InitOpaqueType"

\* C25: a struct initialisation whose initialisers name declared fields,
\* each once, and that leaves a declared field without an initialiser is
\* rejected with StructNotFullyInitialized, and missing_fields is the set of
\* the declared names without an initialiser
C25_MissingFieldsReported ==
    (/\ pc = "resolved" /\ op_in.kind = "struct_init"
     /\ InitNames(op_in.init) \subseteq DOMAIN op_in.struct_type.field_map
     /\ Cardinality(InitNames(op_in.init)) = Len(op_in.init)
     /\ DOMAIN op_in.struct_type.field_map \ InitNames(op_in.init) # {})
        => /\ op_out.err = "StructNotFullyInitialized"
           /\ op_out.missing_fields = DOMAIN op_in.struct_type.field_map \ InitNames(op_in.init)

====
